---- MODULE Spec2Model ----
(***************************************************************************)
(* State-machine model of the mayday website's persistence layer           *)
(* (src/mayday/data/data_layer.py) and of the background tasks that use    *)
(* it.  Tables are modelled as functions or sets of rows, every data-layer *)
(* method as a pure operator over the tables it reads and writes, and      *)
(* every call of a method as one action.                                   *)
(***************************************************************************)
EXTENDS Integers, Sequences, FiniteSets, TLC

(***************************************************************************)
(* Bounds of the model.                                                    *)
(***************************************************************************)
MaxTime == 120          \* the clock stops advancing past this minute
TickMinutes == 30       \* minutes that pass in one step of the clock
MaxEventId == 4         \* serial ids handed out by the events table
MaxCacheRows == 3       \* rows ever inserted into api_cache
MaxServiceId == 3       \* serial ids handed out by the services table
MaxFaqId == 3           \* serial ids handed out by the faqs table
MaxOrder == 3           \* largest display_order a caller passes in
DefaultLen == 1         \* the seed lists are cut to their first entries
MaxMails == 2           \* send_mail calls in one behaviour
MaxPwLen == 2           \* characters in a password
MaxReviews == 3         \* reviews the reputation platform returns
MaxPanels == 4          \* (heading, body) pairs in one update_section_meta
MaxAdminId == 2         \* serial ids handed out by website_administrators
MaxAnnouncementId == 3  \* serial ids handed out by the announcement table
MaxRequests == 1        \* requests to the admin routes in one behaviour
MaxBlogPostId == 2      \* rows the table blog_posts ever gets
MaxPings == 2           \* GETs of the keep-alive loop in one behaviour

(***************************************************************************)
(* Inputs.                                                                 *)
(***************************************************************************)
Cookies == {"c1", "c2"}
NoCookie == "None"
CookieArgs == Cookies \cup {NoCookie}
Usernames == {"", "admin"}
AuthOutcomes == {"website_admin", "database", "failed"}
EventTexts == {"e1", "e2"}
EventTypes == {"info", "error"}
NoEvent == <<"None", "None">>
Contents == {"a"}               \* title, description and icon of a service;
                                \* question and answer of a FAQ
DisplayOrders == 0..MaxOrder
DescriptionTexts == {"edited"}
CacheTypes == {"google_rating", "hcp_services"}
CacheData == {"d1"}
CacheMinutes == {0, 10, 60}     \* cache_duration_hours, in minutes

(***************************************************************************)
(* Program constants.                                                      *)
(***************************************************************************)
SESSION_TIMEOUT == 60   \* minutes
max_attempts == 3       \* login attempts of the bootstrap
max_wait_time == 30     \* one-second polls for the ajs_user_id cookie
interval == 300         \* seconds between two pings of the keep-alive loop
DisplayCap == 10        \* filtered_reviews[:10]
MinTextLen == 20        \* len(review_text) > 20
HmacBlockSize == 64     \* bytes in one block of SHA-256, the HMAC key size

VARIABLES
    now,            \* the wall clock, in minutes
    session,        \* table session: cookie -> [timestamp, username, admin]
    issued,         \* cookies uuid4 has already produced
    trackerPc,      \* SessionTracker.run: "get", "verify", "sleep", "stopped",
                    \* "raised"
    trackerQueue,   \* the rows of the current sweep still to be verified
    trackerStop,    \* SessionTracker.stop
    sweep,          \* when the current sweep read the table, and which of the
                    \* rows it read were then older than the timeout
    events,         \* table events: set of [id, cookie, event, type]
    nextEventId,    \* the serial of events.id
    booted,         \* init_app has run
    services,       \* table services: id -> [content, display_order, is_active]
    nextServiceId,  \* the serial of services.id
    plainCreates,   \* how many create_service calls without an explicit order
                    \* were made in a row since the table had no active row
    faqs,           \* table faqs: id -> [content, display_order, is_active]
    nextFaqId,      \* the serial of faqs.id
    descriptions,   \* table descriptions: section -> text
    backups,        \* the backups directory: file name -> backup document
    api_cache,      \* table api_cache: set of [id, cache_type, data, cached_at,
                    \* expires_at, is_valid]
    nextCacheId,    \* the serial of api_cache.id
    mails,          \* how many times send_mail was called
    sections,       \* table sections: name -> meta
    main,           \* app.main: where it stands (pc), attempt_number, the
                    \* sleeps and login calls it made, what it logged and
                    \* the shutdown calls of its finally block
    hcp,            \* app.hcp: logged_in, keep_alive, and how many requests
                    \* to end the remote session it sent
    refresherStop,  \* APICacheRefresher.stop
    admins,         \* table website_administrators: id -> [username, email,
                    \* full_name, password_hash, is_active]
    nextAdminId,    \* the serial of website_administrators.id
    adminIndexes,   \* the unique constraints website_administrators has:
                    \* "partial", "plain", "none", or "unset" before init
    adminReq,       \* a create or update of an administrator that has run
                    \* its SELECT and not yet its INSERT or UPDATE
    announcement,   \* table announcement: id -> [text, type, active]
    nextAnnouncementId, \* the serial of announcement.id
    requests,       \* how many requests the admin routes have handled
    refresher,      \* APICacheRefresher.run: where it stands (pc)
    ping,           \* the keep-alive task that login starts: where it stands
                    \* (pc), its parameter keep_alive, the seconds it slept
                    \* since the last ping, the GETs it issued, and the steps
                    \* it took after shutdown()
    font_settings,  \* table font_settings: setting_key -> setting_value
    images,         \* the directory static/img: file name -> bytes
    backups_dir,    \* whether the backups directory exists
    blog_posts,     \* table blog_posts: id -> [title, image_data]
    nextBlogPostId, \* the serial of blog_posts.id
    verifying,      \* a verify_session call of a route that has run its
                    \* SELECT and not yet the UPDATE of update_session
    loading,        \* the get_event calls of two page loads: where each
                    \* stands (pc), its cookie, the row its SELECT gave and
                    \* the id of the event it returned (0 for none)
    ret,            \* the last data-layer call: its arguments and result
    prev            \* the call before it (kept for the events and cache tables)

sessVars == <<session, issued, trackerPc, trackerQueue, trackerStop, sweep>>
eventVars == <<events, nextEventId>>
cacheVars == <<api_cache, nextCacheId>>
serviceVars == <<services, nextServiceId, plainCreates>>
faqVars == <<faqs, nextFaqId>>
contentVars == <<serviceVars, faqVars, descriptions>>
bootVars == <<main, hcp, refresherStop>>
adminVars == <<admins, nextAdminId, adminIndexes, adminReq>>
annVars == <<announcement, nextAnnouncementId>>
uploadVars == <<font_settings, images, backups_dir>>
blogVars == <<blog_posts, nextBlogPostId>>
flightVars == <<verifying, loading>>
extraVars == <<ping, refresher, uploadVars, blogVars, flightVars>>
otherVars ==
    <<mails, sections, bootVars, adminVars, annVars, requests, extraVars>>
vars == <<booted, now, sessVars, eventVars, cacheVars, contentVars, backups,
          otherVars, ret, prev>>

\* what the calls on one group of tables leave alone
restSession ==
    <<booted, now, eventVars, cacheVars, contentVars, backups, otherVars, prev>>
restEvents ==
    <<booted, now, sessVars, cacheVars, contentVars, backups, otherVars>>
restCache ==
    <<booted, now, sessVars, eventVars, contentVars, backups, otherVars, prev>>
restContent ==
    <<booted, now, sessVars, eventVars, cacheVars, backups, otherVars, prev>>

NoCall == [op |-> "none", arg |-> <<>>, value |-> "None", seq |-> 0]

\* seq alternates from one call to the next, so that a step in which a call
\* returns differs from a step that leaves ret alone
Call(op, arg, value) ==
    [op |-> op, arg |-> arg, value |-> value, seq |-> 1 - ret.seq]

Returns(op, arg, value) == ret' = Call(op, arg, value)

Called(op) == ret'.op = op /\ ret'.seq # ret.seq

(***************************************************************************)
(* Sessions.                                                               *)
(***************************************************************************)
\* a test that finds every row within the timeout
Expired_never(timestamp, t) == FALSE

Expired(timestamp, t) == ~(timestamp > t - SESSION_TIMEOUT)

\* the page loads that run side by side, and one that has not called
\* get_event yet
Loads == 1..2
NoLoad ==
    [pc |-> "none", cookie |-> NoCookie, id |-> 0, event |-> NoEvent, got |-> 0]

\* no verify_session call is in flight
NoVerify ==
    [pc |-> "none", cookie |-> NoCookie, updateargs |-> <<>>, value |-> FALSE]

\* an update that would insert the row it does not find
update_session_upsert(s, cookie, updateargs) ==
    IF cookie \in DOMAIN s
    THEN [s EXCEPT ![cookie] = updateargs @@ @]
    ELSE (cookie :> (updateargs @@ [timestamp |-> 0, username |-> "",
                                    admin |-> FALSE])) @@ s

update_session(s, cookie, updateargs) ==
    IF cookie \in DOMAIN s
    THEN [s EXCEPT ![cookie] = updateargs @@ @]
    ELSE s

delete_session(s, cookie) == [c \in DOMAIN s \ {cookie} |-> s[c]]

verify_session_nodelete(s, cookie, update_ts, delete_if_expired, t) ==
    IF cookie = NoCookie \/ cookie \notin DOMAIN s
    THEN [session |-> s, value |-> FALSE]
    ELSE LET cookie_is_privileged == (s[cookie].admin = TRUE)
         IN  IF ~Expired(s[cookie].timestamp, t)
             THEN [session |-> IF update_ts
                               THEN update_session(s, cookie, [timestamp |-> t])
                               ELSE s,
                   value |-> cookie_is_privileged]
             ELSE [session |-> update_session(s, cookie, [admin |-> FALSE]),
                   value |-> cookie_is_privileged]

verify_session(s, cookie, update_ts, delete_if_expired, t) ==
    IF cookie = NoCookie \/ cookie \notin DOMAIN s
    THEN [session |-> s, value |-> FALSE]
    ELSE LET cookie_is_privileged == (s[cookie].admin = TRUE)
         IN  IF ~Expired(s[cookie].timestamp, t)
             THEN [session |-> IF update_ts
                               THEN update_session(s, cookie, [timestamp |-> t])
                               ELSE s,
                   value |-> cookie_is_privileged]
             ELSE IF delete_if_expired
             THEN [session |-> delete_session(s, cookie),
                   value |-> cookie_is_privileged]
             ELSE [session |-> update_session(s, cookie, [admin |-> FALSE]),
                   value |-> cookie_is_privileged]

\* create_session(cookie, username, password): the password is abstracted
\* into the outcome of the two authentication attempts.
CreateSession(cookie, username, auth) ==
    LET authenticates == username # ""
        record == [timestamp |-> now,
                   username |-> username,
                   admin |-> authenticates]
    IN  IF authenticates /\ auth = "failed"
        THEN /\ UNCHANGED <<session, issued>>
             /\ Returns("create_session", <<cookie, username>>,
                        "OperationalError")
        ELSE IF cookie # NoCookie
        THEN /\ session' = update_session(session, cookie, record)
             /\ UNCHANGED issued
             /\ Returns("create_session", <<cookie, username>>, cookie)
        ELSE \E fresh \in Cookies \ issued :
                /\ session' = (fresh :> record) @@ session
                /\ issued' = issued \cup {fresh}
                /\ Returns("create_session", <<cookie, username>>, fresh)

CreateSessionCall ==
    /\ booted
    /\ \E cookie \in CookieArgs, username \in Usernames, auth \in AuthOutcomes :
          CreateSession(cookie, username, auth)
    /\ UNCHANGED <<trackerPc, trackerQueue, trackerStop, sweep, restSession>>

\* create_session for an administrator who logs in without a cookie
CreateAdminSession ==
    /\ booted
    /\ CreateSession(NoCookie, "admin", "website_admin")
    /\ UNCHANGED <<trackerPc, trackerQueue, trackerStop, sweep, restSession>>

\* A route handler's privilege check: verify_session(cookie).
VerifySessionCall ==
    /\ booted
    /\ \E cookie \in CookieArgs :
          LET r == verify_session(session, cookie, TRUE, FALSE, now)
          IN  /\ session' = r.session
              /\ Returns("verify_session", <<cookie, "route">>, r.value)
    /\ UNCHANGED <<issued, trackerPc, trackerQueue, trackerStop, sweep,
                   restSession>>

\* update_session(cookie, {"admin": False}), as get_logout calls it: the admin
\* flag is cleared, the row stays.
UpdateSessionCall ==
    /\ booted
    /\ \E cookie \in Cookies :
          /\ session' = update_session(session, cookie, [admin |-> FALSE])
          /\ Returns("update_session", <<cookie, "logout">>, "None")
    /\ UNCHANGED <<issued, trackerPc, trackerQueue, trackerStop, sweep,
                   restSession>>

(***************************************************************************)
(* SessionTracker.run, one action per await.                               *)
(***************************************************************************)
Orderings(S) == {q \in [1..Cardinality(S) -> S] :
                    \A i, j \in 1..Cardinality(S) : i # j => q[i] # q[j]}

TrackerGetSessions ==
    /\ booted
    /\ trackerPc = "get"
    /\ IF trackerStop
       THEN /\ trackerPc' = "stopped"
            /\ UNCHANGED <<trackerQueue, sweep>>
       ELSE /\ trackerPc' = "verify"
            /\ trackerQueue' \in Orderings(DOMAIN session)
            /\ sweep' = [stale |-> {c \in DOMAIN session :
                                        session[c].timestamp
                                            < now - SESSION_TIMEOUT},
                          at |-> now]
    /\ UNCHANGED <<session, issued, trackerStop, restSession, ret>>

TrackerVerify ==
    /\ booted
    /\ trackerPc = "verify"
    /\ trackerQueue # <<>>
    /\ LET cookie == Head(trackerQueue)
           r == verify_session(session, cookie, FALSE, TRUE, now)
       IN  /\ session' = r.session
           /\ Returns("verify_session", <<cookie, "tracker">>, r.value)
    /\ trackerQueue' = Tail(trackerQueue)
    /\ UNCHANGED <<issued, trackerPc, trackerStop, sweep, restSession>>

TrackerSleep ==
    /\ booted
    /\ trackerPc = "verify"
    /\ trackerQueue = <<>>
    /\ trackerPc' = "sleep"
    /\ UNCHANGED <<session, issued, trackerQueue, trackerStop, sweep,
                   restSession, ret>>

TrackerWake ==
    /\ booted
    /\ trackerPc = "sleep"
    /\ trackerPc' = "get"
    /\ UNCHANGED <<session, issued, trackerQueue, trackerStop, sweep,
                   restSession, ret>>

TrackerShutdown ==
    /\ booted
    /\ ~trackerStop
    /\ trackerStop' = TRUE
    /\ UNCHANGED <<session, issued, trackerPc, trackerQueue, sweep,
                   restSession, ret>>

Tick ==
    /\ booted
    /\ now + TickMinutes <= MaxTime
    /\ now' = now + TickMinutes
    /\ UNCHANGED <<booted, sessVars, eventVars, cacheVars, contentVars,
                   backups, otherVars, ret, prev>>

(***************************************************************************)
(* Events.                                                                 *)
(***************************************************************************)
EventsOf(ev, cookie) == {r \in ev : r.cookie = cookie}

create_event_keep(ev, cookie, event, event_type, id) ==
    IF cookie # NoCookie
    THEN ev \cup {[id |-> id, cookie |-> cookie, event |-> event,
                   type |-> event_type]}
    ELSE ev

create_event(ev, cookie, event, event_type, id) ==
    IF cookie # NoCookie
    THEN (ev \ EventsOf(ev, cookie))
            \cup {[id |-> id, cookie |-> cookie, event |-> event,
                   type |-> event_type]}
    ELSE ev

\* the rows the SELECT of get_event may hand to fetchone
get_event_query(ev, cookie) ==
    IF cookie # NoCookie THEN EventsOf(ev, cookie) ELSE {}

get_event_delete_keep(ev, event_query) == ev

get_event_delete(ev, event_query) == {r \in ev : r.id # event_query.id}

CreateEventWith(cookies, texts, types) ==
    /\ booted
    /\ nextEventId <= MaxEventId
    /\ \E cookie \in cookies, event \in texts, type \in types :
          /\ events' = create_event(events, cookie, event, type, nextEventId)
          /\ nextEventId' = IF cookie # NoCookie THEN nextEventId + 1
                            ELSE nextEventId
          /\ Returns("create_event", <<cookie, event, type>>, "None")
          /\ prev' = ret
    /\ UNCHANGED <<restEvents>>

CreateEventCall == CreateEventWith(CookieArgs, EventTexts, EventTypes)

\* the same call for one flash message
CreateFlashEvent == CreateEventWith(Cookies, {"e1"}, {"info"})

GetEventCall ==
    /\ booted
    /\ \E cookie \in CookieArgs :
          IF get_event_query(events, cookie) = {}
          THEN /\ UNCHANGED events
               /\ Returns("get_event", <<cookie>>, NoEvent)
               /\ prev' = ret
          ELSE \E event_query \in get_event_query(events, cookie) :
                  /\ events' = get_event_delete(events, event_query)
                  /\ Returns("get_event", <<cookie>>,
                             <<event_query.event, event_query.type>>)
                  /\ prev' = ret
    /\ UNCHANGED <<nextEventId, restEvents>>

(***************************************************************************)
(* The contact form: POST /email.                                          *)
(***************************************************************************)
Tokens == {"None", "tok"}

\* what urlopen and json.loads give for the siteverify request: an exception,
\* or the decoded body; score is in tenths
Bodies ==
    {[success |-> FALSE],
     [action |-> "contact", score |-> 9],
     [success |-> TRUE, action |-> "contact"],
     [success |-> TRUE, score |-> 9],
     [success |-> TRUE, action |-> "login", score |-> 9],
     [success |-> TRUE, action |-> "contact", score |-> 3],
     [success |-> TRUE, action |-> "contact", score |-> 5],
     [success |-> TRUE, action |-> "contact", score |-> 9]}

Responses ==
    {[raised |-> TRUE]} \cup {[raised |-> FALSE, body |-> b] : b \in Bodies}

\* dict.get(key, default)
Get(result, key, default) ==
    IF key \in DOMAIN result THEN result[key] ELSE default

verify_recaptcha(secret, token, response, expected_action, min_score) ==
    IF ~secret THEN FALSE
    ELSE IF token = "None" THEN FALSE
    ELSE IF response.raised THEN FALSE
    ELSE LET result == response.body
             success == Get(result, "success", FALSE)
             score == Get(result, "score", 0)
             action == Get(result, "action", "")
         IN  IF ~success THEN FALSE
             ELSE IF expected_action # "" /\ action # expected_action
             THEN FALSE
             ELSE IF score < min_score THEN FALSE
             ELSE TRUE

\* send_mail returns the flash it wants shown; smtp tells whether the SMTP
\* conversation went through
send_mail(smtp) ==
    IF smtp THEN <<"mail_sent", "info">> ELSE <<"mail_failed", "error">>

\* form tells whether the posted form has the email, name and message fields
post_email(cookie, secret, token, response, form, smtp) ==
    IF ~verify_recaptcha(secret, token, response, "contact", 5)
    THEN [events |-> create_event(events, cookie, "recaptcha_failed",
                                  "error", nextEventId),
          inserts |-> IF cookie # NoCookie THEN 1 ELSE 0,
          mails |-> mails,
          verified |-> FALSE,
          status |-> 302]
    ELSE IF ~form
    THEN [events |-> events, inserts |-> 0, mails |-> mails,
          verified |-> TRUE, status |-> 500]
    ELSE LET result == send_mail(smtp)
         IN  [events |-> create_event(events, cookie, result[1], result[2],
                                      nextEventId),
              inserts |-> IF cookie # NoCookie THEN 1 ELSE 0,
              mails |-> mails + 1,
              verified |-> TRUE,
              status |-> 302]

PostEmail ==
    /\ booted
    /\ nextEventId <= MaxEventId
    /\ mails < MaxMails
    /\ \E cookie \in CookieArgs, secret \in BOOLEAN, token \in Tokens,
          response \in Responses, form \in BOOLEAN, smtp \in BOOLEAN :
          LET r == post_email(cookie, secret, token, response, form, smtp)
          IN  /\ events' = r.events
              /\ nextEventId' = nextEventId + r.inserts
              /\ mails' = r.mails
              /\ Returns("post_email", <<cookie, r.verified>>, r.status)
    /\ UNCHANGED <<booted, now, sessVars, cacheVars, contentVars, backups,
                   sections, bootVars, adminVars, annVars, requests,
                   extraVars, prev>>

(***************************************************************************)
(* Section meta.                                                           *)
(***************************************************************************)
\* A heading is its text and the content of its bracket tag, split at the
\* spaces as panel_options[0].split(" ") splits it; <<>> is a heading with no
\* bracket tag (re.findall returns no match).
Tags ==
    {<<>>, <<"grid", "1fr", "1fr">>, <<"other">>, <<"", "grid">>}

SectionNames == {"home"}

None == -1      \* grid_start = None; an index counts from 0

grid_style(panel_options) ==
    <<"grid-template-columns: ">> \o Tail(panel_options)

panel_attributes(heading, body) ==
    [heading |-> heading, body |-> body, siblings |-> <<>>,
     options |-> [grid |-> FALSE]]

\* one pass of the loop body; st is [panels, grid_start]
panel_step_toplevel(st, heading, body) ==
    LET attrs == panel_attributes(heading, body)
    IN  IF heading.tag # <<>>
        THEN LET reset == IF st.grid_start # None /\ st.grid_start # 0
                          THEN None ELSE st.grid_start
             IN  IF heading.tag[1] = "grid"
                 THEN [panels |-> Append(st.panels,
                           [attrs EXCEPT !.options =
                               [grid |-> TRUE,
                                grid_style |-> grid_style(heading.tag)]]),
                       grid_start |-> Len(st.panels)]
                 ELSE [panels |-> Append(st.panels, attrs),
                       grid_start |-> reset]
        ELSE [panels |-> Append(st.panels, attrs),
              grid_start |-> st.grid_start]

panel_step(st, heading, body) ==
    LET attrs == panel_attributes(heading, body)
    IN  IF heading.tag # <<>>
        THEN LET reset == IF st.grid_start # None /\ st.grid_start # 0
                          THEN None ELSE st.grid_start
             IN  IF heading.tag[1] = "grid"
                 THEN [panels |-> Append(st.panels,
                           [attrs EXCEPT !.options =
                               [grid |-> TRUE,
                                grid_style |-> grid_style(heading.tag)]]),
                       grid_start |-> Len(st.panels)]
                 ELSE [panels |-> Append(st.panels, attrs),
                       grid_start |-> reset]
        ELSE IF st.grid_start # None
        THEN [panels |-> [st.panels EXCEPT ![st.grid_start + 1].siblings =
                                               Append(@, attrs)],
              grid_start |-> st.grid_start]
        ELSE [panels |-> Append(st.panels, attrs),
              grid_start |-> st.grid_start]

RECURSIVE parse_panels(_, _)
parse_panels(st, panels) ==
    IF panels = <<>> THEN st
    ELSE parse_panels(panel_step(st, Head(panels)[1], Head(panels)[2]),
                      Tail(panels))

section_meta(panels) ==
    [panels |-> parse_panels([panels |-> <<>>, grid_start |-> None],
                             panels).panels]

\* get_section_meta(section) for one section: the headings and bodies of the
\* stored panels, each pair with a newline between; empty for no row and for
\* a row with no panel
get_section_meta(sec, section) ==
    IF section \in DOMAIN sec THEN Len(sec[section].panels) ELSE 0

\* the body of a pair is its position in the list, so that the pairs of one
\* call differ from one another
UpdateSectionMetaCall ==
    /\ booted
    /\ \E section \in SectionNames, n \in 0..MaxPanels :
          \E tags \in [1..n -> Tags] :
             LET panels == [i \in 1..n |->
                               <<[text |-> "h", tag |-> tags[i]], i>>]
                 meta == section_meta(panels)
             IN  IF get_section_meta(sections, section) # 0
                 THEN /\ sections' = [sections EXCEPT ![section] = meta]
                      /\ Returns("update_section_meta", <<section, panels>>,
                                 [meta |-> meta, raised |-> FALSE])
                 ELSE IF section \in DOMAIN sections
                 THEN /\ UNCHANGED sections
                      /\ Returns("update_section_meta", <<section, panels>>,
                                 [meta |-> meta, raised |-> TRUE])
                 ELSE /\ sections' = (section :> meta) @@ sections
                      /\ Returns("update_section_meta", <<section, panels>>,
                                 [meta |-> meta, raised |-> FALSE])
    /\ UNCHANGED <<booted, now, sessVars, eventVars, cacheVars, contentVars,
                   backups, mails, bootVars, adminVars, annVars, requests,
                   extraVars,
                   prev>>

(***************************************************************************)
(* Password hashing.                                                       *)
(***************************************************************************)
\* A Python string is a sequence of atoms, an atom a tuple of strings: a
\* character, the separator, a salt or a digest in hex.
Sep == <<"$">>
Nul == <<"NUL">>
PasswordChars == {<<"a">>, <<"b">>, Nul}
Passwords == UNION {[1..n -> PasswordChars] : n \in 0..MaxPwLen}
Salts == {<<<<"s1">>>>, <<<<"s2">>>>}     \* secrets.token_hex(16)

RECURSIVE Flatten(_)
Flatten(str) == IF str = <<>> THEN <<>> ELSE Head(str) \o Flatten(Tail(str))

RECURSIVE StripNul(_)
StripNul(key) ==
    IF key # <<>> /\ key[Len(key)] = Nul
    THEN StripNul(SubSeq(key, 1, Len(key) - 1))
    ELSE key

\* HMAC brings its key to the block size: a longer key is replaced by its
\* SHA-256 digest, a shorter one is padded with zero bytes, so that zero
\* bytes at its end make no difference
hmac_key(password) ==
    IF Len(password) > HmacBlockSize
    THEN <<<<"sha256">> \o Flatten(password)>>
    ELSE StripNul(password)

\* hashlib.pbkdf2_hmac(...).hex(): one atom, taken to differ whenever the
\* key or the salt differs
pbkdf2_hmac(password, salt) ==
    <<<<"pbkdf2">> \o Flatten(salt) \o <<"|">> \o Flatten(hmac_key(password))>>

\* f"{salt}${pwdh.hex()}"
hash_password(password, salt) ==
    salt \o <<Sep>> \o pbkdf2_hmac(password, salt)

\* str.split('$')
RECURSIVE split(_)
split(str) ==
    IF str = <<>> THEN <<<<>>>>
    ELSE LET rest == split(Tail(str))
         IN  IF Head(str) = Sep
             THEN <<<<>>>> \o rest
             ELSE <<<<Head(str)>> \o Head(rest)>> \o Tail(rest)

\* a password_hash column holds a string or NULL
StrHash(str) == [null |-> FALSE, str |-> str]
NoneHash == [null |-> TRUE, str |-> <<>>]

verify_password_anydigest(password, password_hash) ==
    IF password_hash.null THEN FALSE
    ELSE Len(split(password_hash.str)) = 2

verify_password(password, password_hash) ==
    IF password_hash.null THEN FALSE                  \* AttributeError
    ELSE LET parts == split(password_hash.str)
         IN  IF Len(parts) # 2 THEN FALSE             \* ValueError
             ELSE LET salt == parts[1]
                      stored_hash == parts[2]
                  IN  pbkdf2_hmac(password, salt) = stored_hash

Hashed == {[password |-> p, salt |-> x] : p \in Passwords, x \in Salts}

Malformed ==
    {NoneHash, StrHash(<<>>), StrHash(<<<<"s1">>>>),
     StrHash(<<<<"s1">>, <<"digest">>>>),
     StrHash(<<<<"s1">>, Sep, <<"digest">>, Sep, <<"digest">>>>)}

\* ret.arg = <<password, the password and salt that were hashed>>
VerifyHashedPasswordCall ==
    /\ booted
    /\ \E q \in Passwords, h \in Hashed :
          Returns("verify_password", <<q, h>>,
                  verify_password(q,
                      StrHash(hash_password(h.password, h.salt))))
    /\ UNCHANGED <<booted, now, sessVars, eventVars, cacheVars, contentVars,
                   backups, otherVars, prev>>

\* ret.arg = <<password, the stored hash>>
VerifyMalformedHashCall ==
    /\ booted
    /\ \E q \in Passwords, password_hash \in Malformed :
          Returns("verify_malformed", <<q, password_hash>>,
                  verify_password(q, password_hash))
    /\ UNCHANGED <<booted, now, sessVars, eventVars, cacheVars, contentVars,
                   backups, otherVars, prev>>

(***************************************************************************)
(* The reputation integration: fetch_all_reviews.                          *)
(***************************************************************************)
\* A review as the platform returns it: rating is rating_map.get(starRating,
\* 0), text_len the length of the stripped comment, time the instant that
\* datetime.fromisoformat reads from createTime (a timezone-aware value), or
\* NoTime when createTime is missing or is not read.
NoTime == 0
ReviewKinds ==
    {[rating |-> 5, text_len |-> 21, time |-> NoTime],
     [rating |-> 5, text_len |-> 21, time |-> 1],
     [rating |-> 5, text_len |-> 21, time |-> 2],
     [rating |-> 5, text_len |-> 20, time |-> 1],
     [rating |-> 4, text_len |-> 21, time |-> 2],
     [rating |-> 0, text_len |-> 21, time |-> 2]}

NoRating == <<0, 0>>    \* rating = None; a mean is <<total, count>>

\* the positions of all_reviews that pass the display filter, in order
RECURSIVE filtered_reviews(_, _)
filtered_reviews(all_reviews, i) ==
    IF i > Len(all_reviews) THEN <<>>
    ELSE (IF /\ all_reviews[i].rating = 5
             /\ all_reviews[i].text_len > 0
             /\ all_reviews[i].text_len > MinTextLen
          THEN <<i>> ELSE <<>>)
         \o filtered_reviews(all_reviews, i + 1)

\* list.sort(key = create_datetime or datetime.min, reverse = True): a
\* stable sort, which compares the keys of the list with one another; a
\* timezone-aware key and the naive datetime.min do not compare (TypeError)
sort_raises(all_reviews, ids) ==
    \E x, y \in DOMAIN ids :
        /\ all_reviews[ids[x]].time = NoTime
        /\ all_reviews[ids[y]].time # NoTime

RECURSIVE insert_desc(_, _, _)
insert_desc(all_reviews, sorted, i) ==
    IF sorted = <<>> THEN <<i>>
    ELSE IF all_reviews[Head(sorted)].time >= all_reviews[i].time
    THEN <<Head(sorted)>> \o insert_desc(all_reviews, Tail(sorted), i)
    ELSE <<i>> \o sorted

RECURSIVE sort_desc(_, _)
sort_desc(all_reviews, ids) ==
    IF ids = <<>> THEN <<>>
    ELSE insert_desc(all_reviews,
                     sort_desc(all_reviews, SubSeq(ids, 1, Len(ids) - 1)),
                     ids[Len(ids)])

RECURSIVE total_rating(_, _)
total_rating(all_reviews, i) ==
    IF i > Len(all_reviews) THEN <<0, 0>>
    ELSE LET rest == total_rating(all_reviews, i + 1)
         IN  IF all_reviews[i].rating > 0
             THEN <<rest[1] + all_reviews[i].rating, rest[2] + 1>>
             ELSE rest

api_error == [reviews |-> <<>>, rating |-> NoRating, source |-> "api_error"]

\* fetched tells whether the token, the account ids and every page arrived;
\* the display list holds the positions of the reviews in all_reviews
fetch_all_reviews(fetched, all_reviews) ==
    IF ~fetched THEN api_error
    ELSE LET filtered == filtered_reviews(all_reviews, 1)
         IN  IF sort_raises(all_reviews, filtered) THEN api_error
             ELSE LET sorted == sort_desc(all_reviews, filtered)
                      n == IF Len(sorted) < DisplayCap THEN Len(sorted)
                           ELSE DisplayCap
                  IN  [reviews |-> SubSeq(sorted, 1, n),
                       rating |-> total_rating(all_reviews, 1),
                       source |-> "google_business_api"]

FetchAllReviewsCall ==
    /\ booted
    /\ \E fetched \in BOOLEAN, n \in 0..MaxReviews :
          \E all_reviews \in [1..n -> ReviewKinds] :
             Returns("fetch_all_reviews", <<fetched, all_reviews>>,
                     fetch_all_reviews(fetched, all_reviews))
    /\ UNCHANGED <<booted, now, sessVars, eventVars, cacheVars, contentVars,
                   backups, otherVars, prev>>

(***************************************************************************)
(* The bootstrap: main of app.py.                                          *)
(***************************************************************************)
\* main.pc: "init" (await init_app()), "while" (the loop test), "sleep",
\* "login", "check" (the test after the loop), "serving", then the three
\* calls of the finally block, and "done"
restBoot ==
    <<booted, now, session, issued, trackerPc, trackerQueue, sweep, eventVars,
      cacheVars, contentVars, backups, mails, sections, adminVars, annVars,
      requests, extraVars, ret, prev>>

\* lines 10 to 19, once init_app has returned
MainStart ==
    /\ booted
    /\ main.pc = "init"
    /\ main' = [main EXCEPT !.pc = "while", !.attempt_number = 1]
    /\ UNCHANGED <<hcp, refresherStop, trackerStop, restBoot>>

\* line 20, and the else clause of the loop when the test fails
MainWhile ==
    /\ main.pc = "while"
    /\ main' = IF main.attempt_number < max_attempts
               THEN [main EXCEPT !.pc = "sleep"]
               ELSE [main EXCEPT !.pc = "check",
                                 !.log = @ \cup {"login never succeeded"}]
    /\ UNCHANGED <<hcp, refresherStop, trackerStop, restBoot>>

\* line 21
MainSleep ==
    /\ main.pc = "sleep"
    /\ main' = [main EXCEPT !.pc = "login",
                            !.sleeps = Append(@, main.attempt_number * 2)]
    /\ UNCHANGED <<hcp, refresherStop, trackerStop, restBoot>>

\* lines 22 to 28; login sets logged_in and returns, or raises an Exception
MainLogin ==
    /\ main.pc = "login"
    /\ IF ~hcp.logged_in
       THEN \E succeeds \in BOOLEAN :
               IF succeeds
               THEN /\ hcp' = [hcp EXCEPT !.logged_in = TRUE]
                    /\ main' = [main EXCEPT !.pc = "check",
                                            !.logins = @ + 1]
               ELSE /\ UNCHANGED hcp
                    /\ main' = [main EXCEPT !.pc = "while",
                                            !.logins = @ + 1,
                                            !.attempt_number = @ + 1]
       ELSE /\ UNCHANGED hcp
            /\ main' = [main EXCEPT !.pc = "while"]
    /\ UNCHANGED <<refresherStop, trackerStop, restBoot>>

MainCheckBelow ==
    /\ main.pc = "check"
    /\ main' = IF main.attempt_number < max_attempts
               THEN [main EXCEPT !.pc = "serving"]
               ELSE [main EXCEPT !.pc = "session_tracker.shutdown",
                                 !.log = @ \cup {"server never started"}]
    /\ UNCHANGED <<hcp, refresherStop, trackerStop, restBoot>>

\* lines 32 to 36
MainCheck ==
    /\ main.pc = "check"
    /\ main' = IF main.attempt_number <= max_attempts
               THEN [main EXCEPT !.pc = "serving"]
               ELSE [main EXCEPT !.pc = "session_tracker.shutdown",
                                 !.log = @ \cup {"server never started"}]
    /\ UNCHANGED <<hcp, refresherStop, trackerStop, restBoot>>

\* an exception leaves the try block at one of its awaits: init_app or
\* site.start() raises, or the task is stopped while it sleeps, logs in or
\* serves
MainRaise ==
    /\ \/ main.pc = "init" /\ ~booted
       \/ main.pc \in {"sleep", "login", "check", "serving"}
    /\ main' = [main EXCEPT !.pc = "session_tracker.shutdown"]
    /\ UNCHANGED <<hcp, refresherStop, trackerStop, restBoot>>

\* line 39
MainShutdownTracker ==
    /\ main.pc = "session_tracker.shutdown"
    /\ trackerStop' = TRUE
    /\ main' = [main EXCEPT !.pc = "api_cache_refresher.shutdown",
                            !.shutdowns = Append(@, "session_tracker")]
    /\ UNCHANGED <<hcp, refresherStop, restBoot>>

\* line 40
MainShutdownRefresher ==
    /\ main.pc = "api_cache_refresher.shutdown"
    /\ refresherStop' = TRUE
    /\ main' = [main EXCEPT !.pc = "hcp.shutdown",
                            !.shutdowns = Append(@, "api_cache_refresher")]
    /\ UNCHANGED <<hcp, trackerStop, restBoot>>

\* the session tracker runs from app.session_tracker.start() of line 15 on
SessionTrackerStarted == main.attempt_number > 0

MainTrackerGetSessions == SessionTrackerStarted /\ TrackerGetSessions

MainTrackerSleep == SessionTrackerStarted /\ TrackerSleep

MainTrackerWake == SessionTrackerStarted /\ TrackerWake

\* lines 41 and 42, with HouseCallProIntegration.shutdown; the log line is
\* not reached when the DELETE request raises
hcp_shutdown_always(h) ==
    [h EXCEPT !.keep_alive = FALSE, !.deletes = @ + 1]

hcp_shutdown(h) ==
    IF h.logged_in
    THEN [h EXCEPT !.keep_alive = FALSE, !.deletes = @ + 1]
    ELSE [h EXCEPT !.keep_alive = FALSE]

MainShutdownHcp ==
    /\ main.pc = "hcp.shutdown"
    /\ hcp' = hcp_shutdown(hcp)
    /\ \E raised \in {FALSE, hcp.logged_in} :
          main' = [main EXCEPT !.pc = "done",
                               !.shutdowns = Append(@, "hcp"),
                               !.log = IF raised THEN @
                                       ELSE @ \cup {"goodbye"}]
    /\ UNCHANGED <<refresherStop, trackerStop, restBoot>>

(***************************************************************************)
(* The generic API cache.                                                  *)
(***************************************************************************)
\* the columns an INSERT into api_cache leaves to their defaults
ApiCacheDefaults(t) == [cached_at |-> t, is_valid |-> TRUE]

CacheOf(cache, cache_type) == {r \in cache : r.cache_type = cache_type}

set_cached_api_data_replace(cache, cache_type, data, minutes, t, id) ==
    (cache \ CacheOf(cache, cache_type))
        \cup {[id |-> id, cache_type |-> cache_type, data |-> data,
               expires_at |-> t + minutes] @@ ApiCacheDefaults(t)}

set_cached_api_data(cache, cache_type, data, minutes, t, id) ==
    {IF r.cache_type = cache_type /\ r.is_valid = TRUE
     THEN [r EXCEPT !.is_valid = FALSE]
     ELSE r : r \in cache}
        \cup {[id |-> id, cache_type |-> cache_type, data |-> data,
               expires_at |-> t + minutes] @@ ApiCacheDefaults(t)}

\* WHERE cache_type = %s AND is_valid = true AND expires_at > CURRENT_TIMESTAMP
LiveCache(cache, cache_type, t) ==
    {r \in CacheOf(cache, cache_type) : r.is_valid = TRUE /\ r.expires_at > t}

is_api_cache_expired_anyrow(cache, cache_type, t) ==
    Cardinality({r \in CacheOf(cache, cache_type) : r.is_valid = TRUE}) = 0

is_api_cache_expired(cache, cache_type, t) ==
    Cardinality(LiveCache(cache, cache_type, t)) = 0

\* ORDER BY cached_at DESC LIMIT 1: the rows fetchone may return
get_cached_api_data(cache, cache_type, t) ==
    {r \in LiveCache(cache, cache_type, t) :
        \A q \in LiveCache(cache, cache_type, t) : q.cached_at <= r.cached_at}

SetCachedApiDataCall ==
    /\ booted
    /\ nextCacheId <= MaxCacheRows
    /\ \E cache_type \in CacheTypes, data \in CacheData,
          minutes \in CacheMinutes :
          /\ api_cache' = set_cached_api_data(api_cache, cache_type, data,
                                              minutes, now, nextCacheId)
          /\ Returns("set_cached_api_data", <<cache_type, data, minutes>>,
                     now + minutes)
    /\ nextCacheId' = nextCacheId + 1
    /\ UNCHANGED <<restCache>>

IsApiCacheExpiredCall ==
    /\ booted
    /\ \E cache_type \in CacheTypes :
          Returns("is_api_cache_expired", <<cache_type>>,
                  is_api_cache_expired(api_cache, cache_type, now))
    /\ UNCHANGED <<cacheVars, restCache>>

GetCachedApiDataCall ==
    /\ booted
    /\ \E cache_type \in CacheTypes :
          IF get_cached_api_data(api_cache, cache_type, now) = {}
          THEN Returns("get_cached_api_data", <<cache_type>>, "None")
          ELSE \E result \in get_cached_api_data(api_cache, cache_type, now) :
                  Returns("get_cached_api_data", <<cache_type>>, result.data)
    /\ UNCHANGED <<cacheVars, restCache>>

(***************************************************************************)
(* Services and FAQs.                                                      *)
(***************************************************************************)
\* the columns an INSERT into services or faqs leaves to their defaults
RowDefaults == [is_active |-> TRUE]

ActiveIds(tbl) == {i \in DOMAIN tbl : tbl[i].is_active = TRUE}

MaxOf(S) == CHOOSE x \in S : \A y \in S : y <= x

\* ORDER BY display_order, id
RECURSIVE OrderIds(_, _)
OrderIds(tbl, ids) ==
    IF ids = {} THEN <<>>
    ELSE LET m == CHOOSE i \in ids : \A j \in ids :
                     \/ tbl[i].display_order < tbl[j].display_order
                     \/ tbl[i].display_order = tbl[j].display_order /\ i <= j
         IN  <<m>> \o OrderIds(tbl, ids \ {m})

get_services(svc) == OrderIds(svc, ActiveIds(svc))

\* SELECT COALESCE(MAX(display_order), 0) + 1 FROM services
next_order_allrows(svc) ==
    IF DOMAIN svc = {} THEN 1
    ELSE MaxOf({svc[i].display_order : i \in DOMAIN svc}) + 1

\* SELECT COALESCE(MAX(display_order), 0) + 1 FROM services WHERE is_active
next_order(svc) ==
    IF ActiveIds(svc) = {} THEN 1
    ELSE MaxOf({svc[i].display_order : i \in ActiveIds(svc)}) + 1

create_service(svc, content, display_order, id) ==
    IF display_order = 0
    THEN (id :> ([content |-> content, display_order |-> next_order(svc)]
                    @@ RowDefaults)) @@ svc
    ELSE LET existing_count ==
                 Cardinality({i \in ActiveIds(svc) :
                                 svc[i].display_order = display_order})
             shifted ==
                 IF existing_count > 0
                 THEN [i \in DOMAIN svc |->
                         IF svc[i].display_order >= display_order
                                /\ svc[i].is_active = TRUE
                         THEN [svc[i] EXCEPT !.display_order = @ + 1]
                         ELSE svc[i]]
                 ELSE svc
         IN  (id :> ([content |-> content, display_order |-> display_order]
                        @@ RowDefaults)) @@ shifted

update_service(svc, service_id, content, display_order) ==
    IF service_id \notin DOMAIN svc
    THEN [table |-> svc, value |-> FALSE]
    ELSE LET current_display_order == svc[service_id].display_order
             order == IF display_order = 0 THEN current_display_order
                      ELSE display_order
             existing_count ==
                 Cardinality({i \in ActiveIds(svc) \ {service_id} :
                                 svc[i].display_order = order})
             shifted ==
                 IF order # current_display_order /\ existing_count > 0
                 THEN [i \in DOMAIN svc |->
                         IF i = service_id \/ svc[i].is_active # TRUE
                         THEN svc[i]
                         ELSE IF /\ order > current_display_order
                                 /\ svc[i].display_order > current_display_order
                                 /\ svc[i].display_order <= order
                         THEN [svc[i] EXCEPT !.display_order = @ - 1]
                         ELSE IF /\ order < current_display_order
                                 /\ svc[i].display_order >= order
                                 /\ svc[i].display_order < current_display_order
                         THEN [svc[i] EXCEPT !.display_order = @ + 1]
                         ELSE svc[i]]
                 ELSE svc
         IN  [table |-> [shifted EXCEPT ![service_id] =
                            [@ EXCEPT !.content = content,
                                      !.display_order = order]],
              value |-> TRUE]

delete_service(svc, service_id) ==
    [i \in DOMAIN svc |-> IF i = service_id
                          THEN [svc[i] EXCEPT !.is_active = FALSE]
                          ELSE svc[i]]

\* the FAQ methods repeat the service methods statement for statement
get_faqs(f) == OrderIds(f, ActiveIds(f))

create_faq(f, content, display_order, id) ==
    create_service(f, content, display_order, id)

update_faq(f, faq_id, content, display_order) ==
    update_service(f, faq_id, content, display_order)

delete_faq(f, faq_id) == delete_service(f, faq_id)

CreateServiceCall ==
    /\ booted
    /\ nextServiceId <= MaxServiceId
    /\ \E content \in Contents, display_order \in DisplayOrders :
          /\ services' = create_service(services, content, display_order,
                                        nextServiceId)
          /\ plainCreates' = IF display_order # 0 THEN 0
                             ELSE IF ActiveIds(services) = {} THEN 1
                             ELSE IF plainCreates > 0 THEN plainCreates + 1
                             ELSE 0
          /\ Returns("create_service", <<display_order>>, nextServiceId)
    /\ nextServiceId' = nextServiceId + 1
    /\ UNCHANGED <<faqVars, descriptions, restContent>>

UpdateServiceCall ==
    /\ booted
    /\ \E service_id \in 1..MaxServiceId, content \in Contents,
          display_order \in DisplayOrders :
          LET r == update_service(services, service_id, content, display_order)
          IN  /\ services' = r.table
              /\ Returns("update_service", <<service_id>>, r.value)
    /\ plainCreates' = 0
    /\ UNCHANGED <<nextServiceId, faqVars, descriptions, restContent>>

DeleteServiceCall ==
    /\ booted
    /\ \E service_id \in 1..MaxServiceId :
          /\ services' = delete_service(services, service_id)
          /\ Returns("delete_service", <<service_id>>, "None")
    /\ plainCreates' = 0
    /\ UNCHANGED <<nextServiceId, faqVars, descriptions, restContent>>

CreateFaqCall ==
    /\ booted
    /\ nextFaqId <= MaxFaqId
    /\ \E content \in Contents, display_order \in DisplayOrders :
          /\ faqs' = create_faq(faqs, content, display_order, nextFaqId)
          /\ Returns("create_faq", <<display_order>>, nextFaqId)
    /\ nextFaqId' = nextFaqId + 1
    /\ UNCHANGED <<serviceVars, descriptions, restContent>>

UpdateFaqCall ==
    /\ booted
    /\ \E faq_id \in 1..MaxFaqId, content \in Contents,
          display_order \in DisplayOrders :
          LET r == update_faq(faqs, faq_id, content, display_order)
          IN  /\ faqs' = r.table
              /\ Returns("update_faq", <<faq_id>>, r.value)
    /\ UNCHANGED <<nextFaqId, serviceVars, descriptions, restContent>>

DeleteFaqCall ==
    /\ booted
    /\ \E faq_id \in 1..MaxFaqId :
          /\ faqs' = delete_faq(faqs, faq_id)
          /\ Returns("delete_faq", <<faq_id>>, "None")
    /\ UNCHANGED <<nextFaqId, serviceVars, descriptions, restContent>>

(***************************************************************************)
(* Descriptions and the seed routine.                                      *)
(***************************************************************************)
\* default_config.py, cut to the first DefaultLen entries of each list
DefaultKeys == <<"hero-title", "hero-subtitle", "all-services", "services">>

DEFAULT_DESCRIPTIONS ==
    [k \in {DefaultKeys[i] : i \in 1..DefaultLen} |-> "default"]

DEFAULT_SERVICES ==
    [i \in 1..DefaultLen |-> [content |-> "default", display_order |-> i]]

DEFAULT_FAQS ==
    [i \in 1..DefaultLen |-> [content |-> "default", display_order |-> i]]

Sections == DOMAIN DEFAULT_DESCRIPTIONS \cup {"custom"}

update_description(d, section, text) ==
    IF section \in DOMAIN d
    THEN [d EXCEPT ![section] = text]
    ELSE (section :> text) @@ d

_initialize_descriptions(d) == d @@ DEFAULT_DESCRIPTIONS

\* the rows a seed list inserts, with the ids the serial gives them
SeedRows(defaults, next) ==
    [i \in next..(next + Len(defaults) - 1) |->
        defaults[i - next + 1] @@ RowDefaults]

_initialize_services_always(svc, next) ==
    SeedRows(DEFAULT_SERVICES, next) @@ svc

_initialize_services(svc, next) ==
    LET count == Cardinality(ActiveIds(svc))
    IN  IF count = 0 THEN SeedRows(DEFAULT_SERVICES, next) @@ svc ELSE svc

_initialize_faqs(f, next) ==
    LET count == Cardinality(ActiveIds(f))
    IN  IF count = 0 THEN SeedRows(DEFAULT_FAQS, next) @@ f ELSE f

Inserted(old, new) == Cardinality(DOMAIN new \ DOMAIN old)

_initialize_default_config ==
    /\ descriptions' = _initialize_descriptions(descriptions)
    /\ services' = _initialize_services(services, nextServiceId)
    /\ nextServiceId' = nextServiceId + Inserted(services, services')
    /\ nextServiceId' <= MaxServiceId + 1
    /\ plainCreates' = 0
    /\ faqs' = _initialize_faqs(faqs, nextFaqId)
    /\ nextFaqId' = nextFaqId + Inserted(faqs, faqs')
    /\ nextFaqId' <= MaxFaqId + 1
    /\ Returns("_initialize_default_config", <<>>,
               [descriptions |-> Inserted(descriptions, descriptions'),
                services |-> Inserted(services, services'),
                faqs |-> Inserted(faqs, faqs')])

UpdateDescriptionCall ==
    /\ booted
    /\ \E section \in Sections, text \in DescriptionTexts :
          /\ descriptions' = update_description(descriptions, section, text)
          /\ Returns("update_description", <<section, text>>, "None")
    /\ UNCHANGED <<serviceVars, faqVars, restContent>>

\* POST /api/initialize-defaults
InitializeDefaultConfigCall ==
    /\ booted
    /\ _initialize_default_config
    /\ UNCHANGED <<restContent>>

\* init_app: data_layer.init() seeds the tables, clear_all_sessions empties
\* session and events
InitApp ==
    /\ ~booted
    /\ booted' = TRUE
    /\ _initialize_default_config
    /\ session' = <<>>
    /\ events' = {}
    /\ UNCHANGED <<now, issued, trackerPc, trackerQueue, trackerStop, sweep,
                   nextEventId, cacheVars, backups, otherVars, prev>>

(***************************************************************************)
(* Database backup and restore.                                            *)
(***************************************************************************)
\* line 14, "from datetime import datetime, timezone, timedelta", binds the
\* module-level name datetime to the class; these are the attributes the
\* data layer looks up on that name
datetime_attributes == {"now", "fromisoformat", "fromtimestamp"}

\* the tables of the public schema that the model holds
TableNames ==
    {"session", "events", "services", "faqs", "descriptions", "api_cache"}

Db == [session |-> session, events |-> events, services |-> services,
       faqs |-> faqs, descriptions |-> descriptions, api_cache |-> api_cache]

EmptyDb == [session |-> <<>>, events |-> {}, services |-> <<>>,
            faqs |-> <<>>, descriptions |-> <<>>, api_cache |-> {}]

\* json_serializer writes a datetime as its ISO text
isoformat(t) == [iso |-> t]

\* the server casts the ISO text back when it is inserted into a timestamp
\* column
timestamp_of(v) == v.iso

json_rows(table_name, rows) ==
    IF table_name = "session"
    THEN [c \in DOMAIN rows |->
             [rows[c] EXCEPT !.timestamp = isoformat(@)]]
    ELSE IF table_name = "api_cache"
    THEN {[r EXCEPT !.cached_at = isoformat(@),
                    !.expires_at = isoformat(@)] : r \in rows}
    ELSE rows

inserted_rows(table_name, data) ==
    IF table_name = "session"
    THEN [c \in DOMAIN data |->
             [data[c] EXCEPT !.timestamp = timestamp_of(@)]]
    ELSE IF table_name = "api_cache"
    THEN {[r EXCEPT !.cached_at = timestamp_of(@),
                    !.expires_at = timestamp_of(@)] : r \in data}
    ELSE data

\* the text of a file of the backups directory: whether json.load accepts
\* it, whether the document has the key "tables", and the items of that
\* dict in their order
BackupDocument(json, has_tables, tables) ==
    [json |-> json, has_tables |-> has_tables, tables |-> tables]

Item(table_name, table_data) ==
    [table_name |-> table_name, table_data |-> table_data]

\* the order in which the backup goes through the tables
TableOrder ==
    <<"api_cache", "descriptions", "events", "faqs", "services", "session">>

\* backup_data["tables"], where the tables in errored failed to export
backup_tables(db, errored) ==
    [i \in DOMAIN TableOrder |->
        Item(TableOrder[i],
             IF TableOrder[i] \in errored
             THEN [error |-> "table_error"]
             ELSE [data |-> json_rows(TableOrder[i], db[TableOrder[i]])])]

ErroredTables(backup_data) ==
    {backup_data.tables[i].table_name : i \in
        {j \in DOMAIN backup_data.tables :
            "error" \in DOMAIN backup_data.tables[j].table_data}}

\* the loop over backup_data["tables"].items() inside the transaction that
\* BEGIN opened.  A statement on a table the database does not have raises;
\* from then on the server refuses every statement of the transaction, so
\* the DELETE of each later table raises as well.
RECURSIVE restore_items(_, _, _)
restore_items(items, i, st) ==
    IF i > Len(items) THEN st
    ELSE LET table_name == items[i].table_name
             table_data == items[i].table_data
         IN  IF "error" \in DOMAIN table_data
             THEN restore_items(items, i + 1, st)
             ELSE IF st.aborted \/ table_name \notin TableNames
             THEN restore_items(items, i + 1,
                      [st EXCEPT !.failed_tables = Append(@, table_name),
                                 !.aborted = TRUE])
             ELSE restore_items(items, i + 1,
                      [st EXCEPT !.db = [@ EXCEPT ![table_name] =
                                     inserted_rows(table_name,
                                                   table_data.data)],
                                 !.restored_tables = @ + 1])

Restored(success, db, restored_tables, failed_tables) ==
    [success |-> success, db |-> db, tables_restored |-> restored_tables,
     warnings |-> failed_tables]

\* restore_database_backup on a file that exists: COMMIT ends a transaction
\* that a statement aborted by rolling it back
restore_database_backup(backup_data, db) ==
    IF ~backup_data.json \/ ~backup_data.has_tables
    THEN Restored(FALSE, db, 0, <<>>)
    ELSE LET st == restore_items(backup_data.tables, 1,
                       [db |-> db, restored_tables |-> 0,
                        failed_tables |-> <<>>, aborted |-> FALSE])
         IN  Restored(TRUE, IF st.aborted THEN db ELSE st.db,
                      st.restored_tables, st.failed_tables)

BackupFile == <<"mayday_backup", now>>

FileArgs == DOMAIN backups \cup {<<"mayday_backup", 0>>}

\* create_database_backup: its first statement evaluates datetime.datetime
CreateDatabaseBackupCall ==
    /\ booted
    /\ IF "datetime" \notin datetime_attributes
       THEN /\ UNCHANGED backups
            /\ Returns("create_database_backup", <<>>,
                       [success |-> FALSE, raised |-> "AttributeError"])
       ELSE \E errored \in SUBSET TableNames :
               /\ backups' = (BackupFile :>
                                BackupDocument(TRUE, TRUE,
                                    backup_tables(Db, errored)))
                             @@ backups
               /\ Returns("create_database_backup", <<>>,
                          [success |-> TRUE, filename |-> BackupFile])
    /\ UNCHANGED <<booted, now, sessVars, eventVars, cacheVars, contentVars,
                   otherVars, prev>>

RestoreDatabaseBackupCall ==
    /\ booted
    /\ \E backup_filename \in FileArgs :
          IF backup_filename \notin DOMAIN backups
          THEN /\ UNCHANGED <<session, events, services, faqs, descriptions,
                              api_cache, plainCreates>>
               /\ Returns("restore_database_backup", <<backup_filename>>,
                          [success |-> FALSE, tables_restored |-> 0,
                           warnings |-> <<>>])
          ELSE LET r == restore_database_backup(backups[backup_filename], Db)
                   db == r.db
               IN  /\ session' = db.session
                   /\ events' = db.events
                   /\ services' = db.services
                   /\ faqs' = db.faqs
                   /\ descriptions' = db.descriptions
                   /\ api_cache' = db.api_cache
                   /\ plainCreates' = 0
                   /\ Returns("restore_database_backup", <<backup_filename>>,
                              [success |-> r.success,
                               tables_restored |-> r.tables_restored,
                               warnings |-> r.warnings])
    /\ UNCHANGED <<booted, now, issued, trackerPc, trackerQueue, trackerStop,
                   sweep, nextEventId, nextCacheId, nextServiceId, nextFaqId,
                   backups, otherVars, prev>>

(***************************************************************************)
(* Website administrators.                                                 *)
(***************************************************************************)
\* (username, email) pairs a caller passes in
AdminIdents ==
    {<<"bob", "b@x">>, <<"Bob", "a@x">>, <<"amy", "B@x">>, <<"amy", "a@x">>}
AdminPassword == <<<<"a">>>>
AdminSalt == <<<<"s1">>>>
UpdatePasswords == {<<>>, AdminPassword}    \* password=None or a new one

\* what a call gives back: the exception it raised or the id it returned
\* (0 for a call that returns nothing)
Raised(exception) == [raised |-> exception, id |-> 0]
Returned(id) == [raised |-> "None", id |-> id]

\* str.lower() and LOWER() on the identifiers above
lower(str) ==
    CASE str = "Bob" -> "bob"
      [] str = "B@x" -> "b@x"
      [] OTHER -> str

SameIdent(row, username, email) ==
    \/ lower(row.username) = lower(username)
    \/ lower(row.email) = lower(email)

\* SELECT id FROM website_administrators WHERE (LOWER(username) = %s OR
\* LOWER(email) = %s) AND id != %s AND is_active = true; create has no
\* "id != %s", which is admin_id = 0 here
admin_collides(adm, admin_id, username, email) ==
    \E i \in ActiveIds(adm) \ {admin_id} : SameIdent(adm[i], username, email)

\* "partial": the two indexes of lines 110 and 111, (LOWER(username)) WHERE
\* is_active = true and (LOWER(email)) WHERE is_active = true; "plain": the
\* constraints website_administrators_username_key and _email_key that
\* lines 107 and 108 drop, UNIQUE (username) and UNIQUE (email)
unique_index_ok(adm, indexes) ==
    CASE indexes = "partial" ->
            \A i, j \in ActiveIds(adm) :
                i # j => /\ lower(adm[i].username) # lower(adm[j].username)
                         /\ lower(adm[i].email) # lower(adm[j].email)
      [] indexes = "plain" ->
            \A i, j \in DOMAIN adm :
                i # j => /\ adm[i].username # adm[j].username
                         /\ adm[i].email # adm[j].email
      [] OTHER -> TRUE

\* the INSERT of create_website_administrator
admin_insert(adm, indexes, username, email, id) ==
    LET row == [username |-> username, email |-> email, full_name |-> "n",
                password_hash |-> hash_password(AdminPassword, AdminSalt)]
                @@ RowDefaults
        new == (id :> row) @@ adm
    IN  IF unique_index_ok(new, indexes)
        THEN [admins |-> new, value |-> Returned(id)]
        ELSE [admins |-> adm, value |-> Raised("UniqueViolation")]

\* the UPDATE of update_website_administrator
admin_update(adm, indexes, admin_id, username, email, password) ==
    IF admin_id \notin DOMAIN adm THEN [admins |-> adm, value |-> Returned(0)]
    ELSE LET named == [adm EXCEPT ![admin_id].username = username,
                                  ![admin_id].email = email,
                                  ![admin_id].full_name = "n"]
             new == IF password # <<>>
                    THEN [named EXCEPT ![admin_id].password_hash =
                              hash_password(password, AdminSalt)]
                    ELSE named
         IN  IF unique_index_ok(new, indexes)
             THEN [admins |-> new, value |-> Returned(0)]
             ELSE [admins |-> adm, value |-> Raised("UniqueViolation")]

create_website_administrator(adm, indexes, username, email, id) ==
    IF admin_collides(adm, 0, username, email)
    THEN [admins |-> adm, value |-> Raised("ValueError")]
    ELSE admin_insert(adm, indexes, username, email, id)

update_website_administrator(adm, indexes, admin_id, username, email, password) ==
    IF admin_collides(adm, admin_id, username, email)
    THEN [admins |-> adm, value |-> Raised("ValueError")]
    ELSE admin_update(adm, indexes, admin_id, username, email, password)

delete_website_administrator(adm, admin_id) ==
    IF admin_id \in DOMAIN adm
    THEN [adm EXCEPT ![admin_id].is_active = FALSE]
    ELSE adm

restAdmins ==
    <<booted, now, sessVars, eventVars, cacheVars, contentVars, backups, mails,
      sections, bootVars, annVars, requests, extraVars, prev>>

\* PostgresDataLayer.init, for website_administrators: the table is created
\* from the schema when the database has none, and the partial indexes
\* replace the plain constraints only when the table was there before this
\* start (tables is read before the CREATE TABLE).  Whether the schema
\* declares the plain constraints is not in the sources.
InitAdministratorsTable ==
    /\ booted
    /\ adminIndexes = "unset"
    /\ \E in_tables \in BOOLEAN, schema_unique \in BOOLEAN :
          adminIndexes' = IF in_tables THEN "partial"
                          ELSE IF schema_unique THEN "plain"
                          ELSE "none"
    /\ UNCHANGED <<admins, nextAdminId, adminReq, restAdmins, ret>>

\* ret.arg = <<admin_id, username, email>>, admin_id = 0 for a create
CreateAdministratorWith(idents) ==
    /\ adminIndexes # "unset"
    /\ nextAdminId <= MaxAdminId
    /\ \E ident \in idents :
          LET r == create_website_administrator(admins, adminIndexes,
                                                ident[1], ident[2], nextAdminId)
          IN  /\ admins' = r.admins
              /\ nextAdminId' = IF r.admins = admins THEN nextAdminId
                                ELSE nextAdminId + 1
              /\ Returns("create_website_administrator",
                         <<0, ident[1], ident[2]>>, r.value)
    /\ UNCHANGED <<adminIndexes, adminReq, restAdmins>>

CreateWebsiteAdministratorCall == CreateAdministratorWith(AdminIdents)

UpdateWebsiteAdministratorCall ==
    /\ adminIndexes # "unset"
    /\ \E admin_id \in 1..MaxAdminId, ident \in AdminIdents,
          password \in UpdatePasswords :
          LET r == update_website_administrator(admins, adminIndexes,
                                                admin_id, ident[1], ident[2],
                                                password)
          IN  /\ admins' = r.admins
              /\ Returns("update_website_administrator",
                         <<admin_id, ident[1], ident[2]>>, r.value)
    /\ UNCHANGED <<nextAdminId, adminIndexes, adminReq, restAdmins>>

DeleteWebsiteAdministratorCall ==
    /\ adminIndexes # "unset"
    /\ \E admin_id \in 1..MaxAdminId :
          /\ admins' = delete_website_administrator(admins, admin_id)
          /\ Returns("delete_website_administrator", <<admin_id>>, "None")
    /\ UNCHANGED <<nextAdminId, adminIndexes, adminReq, restAdmins>>

\* A call that overlaps others: its SELECT runs here and, when it finds no
\* row, its INSERT or UPDATE runs in AdministratorWrite, after the calls
\* that were made in between.
AdministratorSelect ==
    /\ adminIndexes # "unset"
    /\ adminReq = NoCall
    /\ \E admin_id \in 0..MaxAdminId, ident \in AdminIdents :
          LET op == IF admin_id = 0 THEN "create_website_administrator"
                    ELSE "update_website_administrator"
              arg == <<admin_id, ident[1], ident[2]>>
          IN  IF admin_collides(admins, admin_id, ident[1], ident[2])
              THEN /\ Returns(op, arg, Raised("ValueError"))
                   /\ UNCHANGED adminReq
              ELSE /\ adminReq' = [op |-> op, arg |-> arg, value |-> "None",
                                   seq |-> 0]
                   /\ UNCHANGED ret
    /\ UNCHANGED <<admins, nextAdminId, adminIndexes, restAdmins>>

AdministratorWrite ==
    /\ adminReq # NoCall
    /\ adminReq.arg[1] = 0 => nextAdminId <= MaxAdminId
    /\ LET a == adminReq.arg
           r == IF a[1] = 0
                THEN admin_insert(admins, adminIndexes, a[2], a[3],
                                  nextAdminId)
                ELSE admin_update(admins, adminIndexes, a[1], a[2], a[3], <<>>)
       IN  /\ admins' = r.admins
           /\ nextAdminId' = IF a[1] = 0 /\ r.admins # admins
                             THEN nextAdminId + 1 ELSE nextAdminId
           /\ Returns(adminReq.op, <<"overlapped">> \o a, r.value)
    /\ adminReq' = NoCall
    /\ UNCHANGED <<adminIndexes, restAdmins>>

(***************************************************************************)
(* Announcements.                                                          *)
(***************************************************************************)
AnnouncementTexts == {"", " ", "hi", " hi ", "yo"}
AnnouncementTypes == {"info", "warning"}

\* str.strip() on the texts above
strip(text) ==
    CASE text = " " -> ""
      [] text = " hi " -> "hi"
      [] OTHER -> text

ActiveAnnouncements(ann) == {i \in DOMAIN ann : ann[i].active = TRUE}

\* SELECT * FROM announcement WHERE active = true ORDER BY created_at DESC
\* LIMIT 1; rows are created in the order of their ids
get_announcement(ann) ==
    IF ActiveAnnouncements(ann) = {} THEN [id |-> 0]
    ELSE LET i == MaxOf(ActiveAnnouncements(ann))
         IN  [id |-> i] @@ ann[i]

update_announcement_keep(ann, text, announcement_type, active, id) ==
    IF text # "" /\ strip(text) # ""
    THEN (id :> [text |-> strip(text), type |-> announcement_type,
                 active |-> active]) @@ ann
    ELSE ann

update_announcement(ann, text, announcement_type, active, id) ==
    LET deactivated == [i \in DOMAIN ann |-> [ann[i] EXCEPT !.active = FALSE]]
    IN  IF text # "" /\ strip(text) # ""
        THEN (id :> [text |-> strip(text), type |-> announcement_type,
                     active |-> active]) @@ deactivated
        ELSE deactivated

restAnnouncement ==
    <<booted, now, sessVars, eventVars, cacheVars, contentVars, backups, mails,
      sections, bootVars, adminVars, requests, extraVars, prev>>

\* ret.arg = <<text, announcement_type, active>>
UpdateAnnouncementCall ==
    /\ booted
    /\ \E text \in AnnouncementTexts, announcement_type \in AnnouncementTypes,
          active \in BOOLEAN :
          /\ strip(text) # "" => nextAnnouncementId <= MaxAnnouncementId
          /\ announcement' = update_announcement(announcement, text,
                                 announcement_type, active, nextAnnouncementId)
          /\ nextAnnouncementId' =
                 IF DOMAIN announcement' = DOMAIN announcement
                 THEN nextAnnouncementId ELSE nextAnnouncementId + 1
          /\ Returns("update_announcement",
                     <<text, announcement_type, active>>, "None")
    /\ UNCHANGED restAnnouncement

GetAnnouncementCall ==
    /\ booted
    /\ Returns("get_announcement", <<>>, get_announcement(announcement))
    /\ UNCHANGED <<annVars, restAnnouncement>>

(***************************************************************************)
(* The admin routes: POST /admin and POST /api/services.                   *)
(***************************************************************************)
ServiceActions == {"create", "update", "delete", "None"}
RouteOrders == {0, 1}           \* data.get('display_order', 0)
AdminRequests ==
    {"json section", "json website-admin delete", "json website-admin",
     "json", "form section-selector", "form announcement-text",
     "form admin-username", "form"}
RouteAnnouncementTexts == {"", "hi"}
RouteIdent == <<"bob", "b@x">>
RoutePasswords == {<<>>, AdminPassword}     \* data.get("admin-password")

restRoutes ==
    <<booted, now, issued, trackerPc, trackerQueue, trackerStop, sweep,
      cacheVars, backups, mails, sections, bootVars, extraVars, prev>>

\* the same call with the username and email that the admin form posts
CreateRouteIdentCall == CreateAdministratorWith({RouteIdent})

\* post_service_api(request, cookie); ret.arg = <<cookie, action>>
PostServiceApi ==
    /\ booted
    /\ requests < MaxRequests
    /\ requests' = requests + 1
    /\ \E cookie \in CookieArgs, action \in ServiceActions,
          id \in 1..MaxServiceId, display_order \in RouteOrders :
          LET v == verify_session(session, cookie, TRUE, FALSE, now)
              u == update_service(services, id, "a", display_order)
              arg == <<cookie, action>>
          IN  /\ session' = v.session
              /\ IF ~v.value
                 THEN /\ UNCHANGED serviceVars
                      /\ Returns("post_service_api", arg, "HTTPUnauthorized")
                 ELSE CASE action = "create" ->
                             /\ nextServiceId <= MaxServiceId
                             /\ services' = create_service(services, "a",
                                                display_order, nextServiceId)
                             /\ nextServiceId' = nextServiceId + 1
                             /\ plainCreates' =
                                    IF display_order # 0 THEN 0
                                    ELSE IF ActiveIds(services) = {} THEN 1
                                    ELSE IF plainCreates > 0
                                    THEN plainCreates + 1
                                    ELSE 0
                             /\ Returns("post_service_api", arg,
                                        "json_response")
                        [] action = "update" ->
                             /\ services' = u.table
                             /\ plainCreates' = 0
                             /\ UNCHANGED nextServiceId
                             /\ Returns("post_service_api", arg,
                                        "json_response")
                        [] action = "delete" ->
                             /\ services' = delete_service(services, id)
                             /\ plainCreates' = 0
                             /\ UNCHANGED nextServiceId
                             /\ Returns("post_service_api", arg,
                                        "json_response")
                        [] OTHER ->
                             /\ UNCHANGED serviceVars
                             /\ Returns("post_service_api", arg,
                                        "HTTPBadRequest")
    /\ UNCHANGED <<faqVars, descriptions, eventVars, adminVars, annVars,
                   restRoutes>>

\* the create_event call of a branch of post_admin
RouteEvent(cookie, event, event_type) ==
    /\ nextEventId <= MaxEventId
    /\ events' = create_event(events, cookie, event, event_type, nextEventId)
    /\ nextEventId' = IF cookie # NoCookie THEN nextEventId + 1
                      ELSE nextEventId

\* post_admin(request, cookie); ret.arg = <<cookie, the request>>
PostAdmin ==
    /\ booted
    /\ adminIndexes # "unset"
    /\ requests < MaxRequests
    /\ requests' = requests + 1
    /\ \E cookie \in CookieArgs, request \in AdminRequests :
          LET v == verify_session(session, cookie, TRUE, FALSE, now)
              arg == <<cookie, request>>
          IN  /\ session' = v.session
              /\ IF ~v.value
                 THEN /\ UNCHANGED <<descriptions, eventVars, admins,
                                     nextAdminId, annVars>>
                      /\ Returns("post_admin", arg, "HTTPUnauthorized")
                 ELSE CASE request = "json section" ->
                             /\ UNCHANGED <<descriptions, eventVars, admins,
                                            nextAdminId, annVars>>
                             /\ Returns("post_admin", arg, "json_response")
                        [] request = "json website-admin delete" ->
                             /\ \E admin_id \in 1..MaxAdminId :
                                   admins' = delete_website_administrator(
                                                 admins, admin_id)
                             /\ UNCHANGED <<descriptions, eventVars,
                                            nextAdminId, annVars>>
                             /\ Returns("post_admin", arg, "HTTPOk")
                        [] request = "json website-admin" ->
                             \* no branch returns: the handler gives None
                             /\ UNCHANGED <<descriptions, eventVars, admins,
                                            nextAdminId, annVars>>
                             /\ Returns("post_admin", arg, "None")
                        [] request = "json" ->
                             /\ UNCHANGED <<descriptions, eventVars, admins,
                                            nextAdminId, annVars>>
                             /\ Returns("post_admin", arg, "HTTPNotFound")
                        [] request = "form section-selector" ->
                             /\ descriptions' = update_description(
                                    descriptions, "custom", "edited")
                             /\ RouteEvent(cookie, "Updated Custom", "success")
                             /\ UNCHANGED <<admins, nextAdminId, annVars>>
                             /\ Returns("post_admin", arg, "HTTPFound")
                        [] request = "form announcement-text" ->
                             /\ \E text \in RouteAnnouncementTexts :
                                   /\ strip(text) # "" =>
                                        nextAnnouncementId <= MaxAnnouncementId
                                   /\ announcement' = update_announcement(
                                          announcement, text, "info", TRUE,
                                          nextAnnouncementId)
                                   /\ IF strip(text) # ""
                                      THEN RouteEvent(cookie,
                                               "Announcement updated",
                                               "success")
                                      ELSE RouteEvent(cookie,
                                               "Announcement cleared", "info")
                             /\ nextAnnouncementId' =
                                    IF DOMAIN announcement' = DOMAIN announcement
                                    THEN nextAnnouncementId
                                    ELSE nextAnnouncementId + 1
                             /\ UNCHANGED <<descriptions, admins, nextAdminId>>
                             /\ Returns("post_admin", arg, "HTTPFound")
                        [] request = "form admin-username" ->
                             /\ nextAdminId <= MaxAdminId
                             /\ \E password \in RoutePasswords :
                                   LET r == IF password = <<>>
                                            THEN [admins |-> admins,
                                                  value |-> Raised("ValueError")]
                                            ELSE create_website_administrator(
                                                     admins, adminIndexes,
                                                     RouteIdent[1],
                                                     RouteIdent[2],
                                                     nextAdminId)
                                   IN  /\ admins' = r.admins
                                       /\ nextAdminId' =
                                              IF r.admins = admins
                                              THEN nextAdminId
                                              ELSE nextAdminId + 1
                                       /\ CASE r.value.raised = "None" ->
                                                 /\ RouteEvent(cookie,
                                                        "administrator added",
                                                        "success")
                                                 /\ Returns("post_admin", arg,
                                                            "HTTPFound")
                                            [] r.value.raised = "ValueError" ->
                                                 /\ RouteEvent(cookie,
                                                        "Failed to add",
                                                        "error")
                                                 /\ Returns("post_admin", arg,
                                                            "HTTPFound")
                                            [] OTHER ->
                                                 /\ UNCHANGED eventVars
                                                 /\ Returns("post_admin", arg,
                                                        "UniqueViolation")
                             /\ UNCHANGED <<descriptions, annVars>>
                        [] OTHER ->
                             /\ UNCHANGED <<descriptions, eventVars, admins,
                                            nextAdminId, annVars>>
                             /\ Returns("post_admin", arg, "HTTPFound")
    /\ UNCHANGED <<serviceVars, faqVars, adminIndexes, adminReq, restRoutes>>

(***************************************************************************)
(* The admin routes that take fonts and files.                             *)
(***************************************************************************)
Fonts == {"", " ", "Inter"}     \* data.get('heading_font', '')
UploadNames == {"", "x.png", "x.exe", "b.json", "b.sql"}    \* field.filename
ImageKeys == {"", "logo", "banner"}
UploadedTexts == 1..5

\* os.path.splitext(filename.lower())[1]
splitext(filename) ==
    CASE filename = "x.png" -> ".png"
      [] filename = "x.exe" -> ".exe"
      [] filename = "b.json" -> ".json"
      [] filename = "b.sql" -> ".sql"
      [] OTHER -> ""

allowed_extensions == {".jpg", ".jpeg", ".png", ".gif", ".webp"}

image_map == [logo |-> "mayday-translucent.png", headshot |-> "headshot.jpeg",
              family |-> "family.JPG", benny |-> "benny-piece.png",
              hero |-> "hero-bg.jpg", about1 |-> "headshot.jpeg",
              about2 |-> "family.JPG", about3 |-> "benny-piece.png"]

backup_of(target) ==
    CASE target = "mayday-translucent.png" -> "mayday-translucent.png.backup"
      [] OTHER -> "other.backup"

\* the texts an admin uploads as a backup: not JSON; JSON without the key
\* "tables"; a backup of two tables; a backup with a table the database does
\* not have between them; a backup whose first table is recorded with an
\* error
UploadedText(n) ==
    CASE n = 1 -> BackupDocument(FALSE, FALSE, <<>>)
      [] n = 2 -> BackupDocument(TRUE, FALSE, <<>>)
      [] n = 3 -> BackupDocument(TRUE, TRUE,
                      <<Item("services", [data |-> <<>>]),
                        Item("faqs", [data |-> <<>>])>>)
      [] n = 4 -> BackupDocument(TRUE, TRUE,
                      <<Item("services", [data |-> <<>>]),
                        Item("old_table", [data |-> <<>>]),
                        Item("faqs", [data |-> <<>>])>>)
      [] OTHER -> BackupDocument(TRUE, TRUE,
                      <<Item("services", [error |-> "table_error"]),
                        Item("faqs", [data |-> <<>>])>>)

UploadedFile(original_filename, file_extension) ==
    <<IF original_filename = "" THEN ""
      ELSE IF file_extension = ".json" THEN "mayday_backup_uploaded.json"
      ELSE "mayday_backup_uploaded.sql", now>>

update_font_settings(settings, heading_font, body_font, custom_css) ==
    [k \in {"heading_font", "body_font", "custom_css"} |->
        CASE k = "heading_font" -> heading_font
          [] k = "body_font" -> body_font
          [] OTHER -> custom_css]

restUploads ==
    <<booted, now, issued, trackerPc, trackerQueue, trackerStop, sweep,
      cacheVars, contentVars, mails, sections, bootVars, adminVars, annVars,
      ping, refresher, blogVars, flightVars, prev>>

\* post_font_settings_api(request, cookie); ret.arg = <<cookie, the fonts>>
PostFontSettingsApi ==
    /\ booted
    /\ requests < MaxRequests
    /\ requests' = requests + 1
    /\ \E cookie \in CookieArgs, heading \in Fonts, body \in Fonts :
          LET v == verify_session(session, cookie, TRUE, FALSE, now)
              heading_font == strip(heading)
              body_font == strip(body)
              arg == <<cookie, <<heading, body>>>>
          IN  /\ session' = v.session
              /\ IF ~v.value
                 THEN /\ UNCHANGED <<font_settings, eventVars>>
                      /\ Returns("post_font_settings_api", arg,
                                 "HTTPUnauthorized")
                 ELSE IF heading_font = "" \/ body_font = ""
                 THEN /\ UNCHANGED <<font_settings, eventVars>>
                      /\ Returns("post_font_settings_api", arg, "400")
                 ELSE /\ font_settings' = update_font_settings(
                             font_settings, heading_font, body_font, "")
                      /\ RouteEvent(cookie, "Font settings updated",
                                    "success")
                      /\ Returns("post_font_settings_api", arg,
                                 "json_response")
    /\ UNCHANGED <<images, backups, backups_dir, restUploads>>

\* post_image_upload(request, cookie); ret.arg = <<cookie, <<image_key,
\* filename>>>>, where the file name is empty when no file part came
PostImageUpload ==
    /\ booted
    /\ requests < MaxRequests
    /\ requests' = requests + 1
    /\ \E cookie \in CookieArgs, image_key \in ImageKeys,
          filename \in {"", "x.png", "x.exe"} :
          LET v == verify_session(session, cookie, TRUE, FALSE, now)
              arg == <<cookie, <<image_key, filename>>>>
              target_filename == image_map[image_key]
              backup_path == backup_of(target_filename)
          IN  /\ session' = v.session
              /\ IF ~v.value
                 THEN /\ UNCHANGED <<images, eventVars>>
                      /\ Returns("post_image_upload", arg, "HTTPUnauthorized")
                 ELSE IF image_key = "" \/ filename = ""
                         \/ splitext(filename) \notin allowed_extensions
                         \/ image_key \notin DOMAIN image_map
                 THEN /\ UNCHANGED <<images, eventVars>>
                      /\ Returns("post_image_upload", arg, "400")
                 ELSE /\ images' =
                            (target_filename :> "uploaded")
                            @@ (IF target_filename \in DOMAIN images
                                   /\ backup_path \notin DOMAIN images
                                THEN backup_path :> images[target_filename]
                                ELSE <<>>)
                            @@ images
                      /\ RouteEvent(cookie, "Image updated", "success")
                      /\ Returns("post_image_upload", arg, "json_response")
    /\ UNCHANGED <<font_settings, backups, backups_dir, restUploads>>

\* the body of upload_database_backup_api once the session is verified:
\* the files of the backups directory afterwards, whether the directory was
\* made, and the response
Upload(files, made_dir, response) ==
    [files |-> files, made_dir |-> made_dir, response |-> response]

upload_database_backup_unchecked(files, name, file_extension, too_large, backup_data) ==
    IF name[1] = "" \/ file_extension \notin {".json", ".sql"}
    THEN Upload(files, FALSE, "400")
    ELSE IF too_large
            \/ (file_extension = ".json"
                /\ (~backup_data.json \/ ~backup_data.has_tables))
    THEN Upload((name :> backup_data) @@ files, TRUE, "400")
    ELSE Upload((name :> backup_data) @@ files, TRUE, "json_response")

upload_database_backup(files, name, file_extension, too_large, backup_data) ==
    IF name[1] = "" \/ file_extension \notin {".json", ".sql"}
    THEN Upload(files, FALSE, "400")
    ELSE IF too_large
            \/ (file_extension = ".json"
                /\ (~backup_data.json \/ ~backup_data.has_tables))
    THEN Upload(files, TRUE, "400")
    ELSE Upload((name :> backup_data) @@ files, TRUE, "json_response")

\* upload_database_backup_api(request, cookie); ret.arg = <<cookie,
\* <<original_filename, whether the file is over max_size, the text>>>>.
\* os.makedirs runs before the size and the structure are looked at.
UploadDatabaseBackupApi ==
    /\ booted
    /\ requests < MaxRequests
    /\ requests' = requests + 1
    /\ \E cookie \in CookieArgs, original_filename \in {"", "x.exe", "b.json",
                                                        "b.sql"},
          too_large \in BOOLEAN, text \in UploadedTexts :
          LET v == verify_session(session, cookie, TRUE, FALSE, now)
              arg == <<cookie, <<original_filename, too_large, text>>>>
              file_extension == splitext(original_filename)
              u == upload_database_backup(backups,
                       UploadedFile(original_filename, file_extension),
                       file_extension, too_large, UploadedText(text))
          IN  /\ session' = v.session
              /\ IF ~v.value
                 THEN /\ UNCHANGED <<backups, backups_dir, eventVars>>
                      /\ Returns("upload_database_backup_api", arg,
                                 "HTTPUnauthorized")
                 ELSE /\ backups' = u.files
                      /\ backups_dir' = (backups_dir \/ u.made_dir)
                      /\ IF u.response = "json_response"
                         THEN RouteEvent(cookie, "Database backup uploaded",
                                         "success")
                         ELSE UNCHANGED eventVars
                      /\ Returns("upload_database_backup_api", arg,
                                 u.response)
    /\ UNCHANGED <<font_settings, images, restUploads>>

(***************************************************************************)
(* The scheduling integration: login and its keep-alive loop.              *)
(***************************************************************************)
\* self.playwright(): it raises before a browser exists, or after
\* chromium.launch() returned, or it returns
SetupOutcomes == {"ok", "launch raises", "new_context raises"}

LoginResult(raised, polls, launched, closed) ==
    [raised |-> raised, polls |-> polls, launched |-> launched,
     closed |-> closed]

\* login(): form is FALSE when a step of lines 68 to 85 raises; cookie_at is
\* the poll at which the ajs_user_id cookie is first in the context
\* (max_wait_time + 1: at none of them).  The result says whether login
\* raised, how many polls it made, and whether the browser was launched and
\* closed.
login(h, setup, form, two_factor, cookie_at) ==
    IF setup = "launch raises"
    THEN [hcp |-> h, started |-> FALSE,
          result |-> LoginResult(TRUE, 0, FALSE, FALSE)]
    ELSE IF setup = "new_context raises"
    THEN [hcp |-> h, started |-> FALSE,
          result |-> LoginResult(TRUE, 0, TRUE, FALSE)]
    ELSE IF ~form \/ two_factor
    THEN [hcp |-> h, started |-> FALSE,
          result |-> LoginResult(TRUE, 0, TRUE, TRUE)]
    ELSE IF cookie_at > max_wait_time
    THEN [hcp |-> h, started |-> FALSE,
          result |-> LoginResult(TRUE, max_wait_time, TRUE, TRUE)]
    ELSE [hcp |-> [h EXCEPT !.logged_in = TRUE], started |-> TRUE,
          result |-> LoginResult(FALSE, cookie_at, TRUE, TRUE)]

restHcp ==
    <<booted, now, sessVars, eventVars, cacheVars, contentVars, backups, mails,
      sections, main, refresherStop, adminVars, annVars, requests, refresher,
      uploadVars, blogVars, flightVars, prev>>

\* await app.hcp.login(), which main calls while logged_in is false;
\* ensure_future(ping(self.session, self.keep_alive, ping_url)) hands the
\* task the value keep_alive has at that moment.
\* ret.arg = <<setup, form, two_factor, cookie_at>>
LoginWith(setups, cookie_ats) ==
    /\ ~hcp.logged_in
    /\ \E setup \in setups, form \in BOOLEAN, two_factor \in BOOLEAN,
          cookie_at \in cookie_ats :
          LET r == login(hcp, setup, form, two_factor, cookie_at)
          IN  /\ hcp' = r.hcp
              /\ ping' = IF r.started
                         THEN [ping EXCEPT
                                  !.pc = IF hcp.keep_alive THEN "sleep"
                                         ELSE "done",
                                  !.keep_alive = hcp.keep_alive]
                         ELSE ping
              /\ Returns("login", <<setup, form, two_factor, cookie_at>>,
                         r.result)
    /\ UNCHANGED restHcp

HcpLoginCall == LoginWith(SetupOutcomes, 1..(max_wait_time + 1))

\* the same call where the browser starts and the cookie is there at the
\* first poll or at none
HcpLoginFirstPoll == LoginWith({"ok"}, {1, max_wait_time + 1})

\* One step of the ping task, from one await asyncio.sleep(1) to the next:
\* keep_alive is the parameter of ping, not self.keep_alive.  session.get
\* returns or raises, and the bare except swallows what it raises.  After
\* shutdown(), which main calls as it ends, the event loop runs the tasks
\* that are ready once more before run_until_complete returns.
PingWake ==
    /\ ping.pc = "sleep"
    /\ hcp.keep_alive \/ ping.late < 1
    /\ IF ~ping.keep_alive
       THEN ping' = [ping EXCEPT !.pc = "done"]
       ELSE IF ping.slept + 1 < interval
       THEN ping' = [ping EXCEPT !.slept = @ + 1,
                                 !.late = IF hcp.keep_alive THEN 0 ELSE 1]
       ELSE /\ ping.gets < MaxPings
            /\ ping' = [ping EXCEPT !.slept = 0, !.gets = @ + 1,
                                    !.late = IF hcp.keep_alive THEN 0 ELSE 1]
    /\ UNCHANGED <<hcp, restHcp, ret>>

\* app.hcp.shutdown()
HcpShutdownCall ==
    /\ hcp.keep_alive
    /\ hcp' = hcp_shutdown(hcp)
    /\ Returns("shutdown", <<>>, "None")
    /\ UNCHANGED <<ping, restHcp>>

(***************************************************************************)
(* The scheduling integration: get_services and get_calendar.              *)
(***************************************************************************)
\* what self.session.get gives: it raises, or a response with a status and a
\* text ("html": no JSON; "no data": JSON without data; "bad item": a data
\* list whose second service lacks a key; "data": a data list of one service;
\* "error json": a JSON body that reports an error)
HcpResponses ==
    {[raises |-> TRUE, status |-> 0, text |-> "none"],
     [raises |-> FALSE, status |-> 500, text |-> "html"],
     [raises |-> FALSE, status |-> 401, text |-> "error json"],
     [raises |-> FALSE, status |-> 200, text |-> "html"],
     [raises |-> FALSE, status |-> 200, text |-> "no data"],
     [raises |-> FALSE, status |-> 200, text |-> "bad item"],
     [raises |-> FALSE, status |-> 200, text |-> "data"]}

Fetched(value, http, raised) ==
    [value |-> value, http |-> http, raised |-> raised]

\* HouseCallPro.get_services(): value is the list under "online_bookable"
hcp_get_services(h, resp) ==
    IF ~h.logged_in THEN Fetched(<<>>, 0, FALSE)
    ELSE IF resp.raises THEN Fetched(<<>>, 1, FALSE)
    ELSE IF resp.status # 200 THEN Fetched(<<>>, 1, FALSE)
    ELSE IF resp.text = "html" THEN Fetched(<<>>, 1, FALSE)
    ELSE IF resp.text \in {"no data", "error json"}
    THEN Fetched(<<>>, 1, FALSE)
    ELSE IF resp.text = "bad item" THEN Fetched(<<"s1">>, 1, FALSE)
    ELSE Fetched(<<"s1">>, 1, FALSE)

\* HouseCallPro.get_calendar(): value is what json.loads(resp.text) gives, the list under
\* "items" or the error document
hcp_get_calendar(h, resp) ==
    IF ~h.logged_in THEN Fetched(<<>>, 0, FALSE)
    ELSE IF resp.raises THEN Fetched(<<>>, 1, TRUE)
    ELSE IF resp.text = "html" THEN Fetched(<<>>, 1, TRUE)
    ELSE IF resp.text = "error json" THEN Fetched(<<"error">>, 1, FALSE)
    ELSE IF resp.text = "no data" THEN Fetched(<<>>, 1, FALSE)
    ELSE Fetched(<<"i1">>, 1, FALSE)

\* ret.arg = <<logged_in, resp>>
GetServicesCall ==
    /\ \E resp \in HcpResponses :
          Returns("hcp.get_services", <<hcp.logged_in, resp>>,
                  hcp_get_services(hcp, resp))
    /\ UNCHANGED <<hcp, ping, restHcp>>

GetCalendarCall ==
    /\ \E resp \in HcpResponses :
          Returns("hcp.get_calendar", <<hcp.logged_in, resp>>,
                  hcp_get_calendar(hcp, resp))
    /\ UNCHANGED <<hcp, ping, restHcp>>

(***************************************************************************)
(* The background tasks: APICacheRefresher and a failing SessionTracker.   *)
(***************************************************************************)
\* what get_google_rating_fresh and get_google_reviews_fresh give: an
\* exception, a document without a rating or with an empty list, or data
FreshOutcomes == {"raises", "empty", "data"}

\* the documents of the fresh fetches; services is the value under
\* "services", the dict that get_services returned
RatingDocument(fresh) ==
    [source |-> IF fresh = "data" THEN "maps_scraped" ELSE "not_found",
     rating |-> IF fresh = "data" THEN <<48>> ELSE <<>>]

ReviewsDocument(fresh) ==
    [source |-> IF fresh = "data" THEN "maps_scraped" ELSE "error",
     reviews |-> IF fresh = "data" THEN <<"r1">> ELSE <<>>]

\* get_hcp_services_fresh(): services_data is the dict
\* {"online_bookable": [...]}, which has one key and so is true
get_hcp_services_fresh(h, resp) ==
    LET services_data == [online_bookable |-> hcp_get_services(h, resp).value]
    IN  [services |-> services_data, source |-> "hcp_fresh",
         total_found |-> Cardinality(DOMAIN services_data)]

Refreshed(cache, wrote, attempts, delays, document) ==
    [cache |-> cache, wrote |-> wrote, attempts |-> attempts,
     delays |-> delays, document |-> document]

\* refresh_rating_cache and refresh_reviews_cache
refresh_rating_cache(cache, fresh, t, id) ==
    IF fresh = "data"
    THEN Refreshed(set_cached_api_data(cache, "google_rating",
                       RatingDocument(fresh), 60, t, id),
                   TRUE, 1, <<>>, RatingDocument(fresh))
    ELSE Refreshed(cache, FALSE, 1, <<>>, RatingDocument(fresh))

refresh_reviews_cache_always(cache, fresh, t, id) ==
    Refreshed(set_cached_api_data(cache, "google_reviews",
                  ReviewsDocument(fresh), 60, t, id),
              TRUE, 1, <<>>, ReviewsDocument(fresh))

refresh_reviews_cache(cache, fresh, t, id) ==
    IF fresh = "data"
    THEN Refreshed(set_cached_api_data(cache, "google_reviews",
                       ReviewsDocument(fresh), 60, t, id),
                   TRUE, 1, <<>>, ReviewsDocument(fresh))
    ELSE Refreshed(cache, FALSE, 1, <<>>, ReviewsDocument(fresh))

\* refresh_hcp_services_cache: one fetch; the dict under "services" is true
\* whatever its list holds; cache_duration_hours = 10/60
refresh_hcp_services_cache(cache, h, resp, t, id) ==
    LET fresh_data == get_hcp_services_fresh(h, resp)
    IN  Refreshed(set_cached_api_data(cache, "hcp_services", fresh_data,
                                      10, t, id),
                  TRUE, 1, <<>>, fresh_data)

restRefresher ==
    <<booted, now, sessVars, eventVars, contentVars, backups, mails, sections,
      bootVars, adminVars, annVars, requests, ping, uploadVars,
      blogVars, flightVars, prev>>

\* app.api_cache_refresher.start()
RefresherStart ==
    /\ booted
    /\ refresher.pc = "none"
    /\ refresher' = [refresher EXCEPT !.pc = "init rating"]
    /\ UNCHANGED <<cacheVars, restRefresher, ret>>

\* where run goes after a step: the initial refresh runs the three refreshes
\* in turn, a cycle of the loop runs them and sleeps
AfterRefresh(pc) ==
    CASE pc = "init rating" -> "init reviews"
      [] pc = "init reviews" -> "init hcp"
      [] pc = "init hcp" -> "while"
      [] pc = "rating" -> "reviews"
      [] pc = "reviews" -> "hcp"
      [] OTHER -> "sleep"

InCycle(pc) == pc \in {"rating", "reviews", "hcp"}

\* one refresh of run: in the loop it is made only when is_api_cache_expired
\* says so.  ret.arg = <<what the fetch gave, logged_in>>
RefreshStep(pc, cache_type, r, arg) ==
    /\ refresher.pc \in pc
    /\ refresher' = [refresher EXCEPT !.pc = AfterRefresh(@)]
    /\ IF InCycle(refresher.pc)
          /\ ~is_api_cache_expired(api_cache, cache_type, now)
       THEN UNCHANGED <<cacheVars, ret>>
       ELSE /\ r.wrote => nextCacheId <= MaxCacheRows
            /\ api_cache' = r.cache
            /\ nextCacheId' = IF r.wrote THEN nextCacheId + 1 ELSE nextCacheId
            /\ Returns("refresh_" \o cache_type, arg,
                       [wrote |-> r.wrote, attempts |-> r.attempts,
                        delays |-> r.delays, document |-> r.document])
    /\ UNCHANGED restRefresher

RefreshRating ==
    \E fresh \in FreshOutcomes :
        RefreshStep({"init rating", "rating"}, "google_rating",
                    refresh_rating_cache(api_cache, fresh, now, nextCacheId),
                    <<fresh, hcp.logged_in>>)

RefreshReviews ==
    \E fresh \in FreshOutcomes :
        RefreshStep({"init reviews", "reviews"}, "google_reviews",
                    refresh_reviews_cache(api_cache, fresh, now, nextCacheId),
                    <<fresh, hcp.logged_in>>)

RefreshHcpServices ==
    \E resp \in HcpResponses :
        RefreshStep({"init hcp", "hcp"}, "hcp_services",
                    refresh_hcp_services_cache(api_cache, hcp, resp, now,
                                               nextCacheId),
                    <<resp, hcp.logged_in>>)

\* while not self.stop, and await asyncio.sleep(self.refresh_interval)
\* the same loop with a test that never sees the flag
RefresherWhile_forever ==
    /\ refresher.pc \in {"while", "sleep"}
    /\ refresher' = [refresher EXCEPT !.pc = IF refresher.pc = "sleep"
                                            THEN "while"
                                            ELSE "rating"]
    /\ UNCHANGED <<cacheVars, restRefresher, ret>>

RefresherWhile ==
    /\ refresher.pc \in {"while", "sleep"}
    /\ refresher' = [refresher EXCEPT !.pc = IF refresher.pc = "sleep"
                                            THEN "while"
                                            ELSE IF refresherStop
                                            THEN "stopped"
                                            ELSE "rating"]
    /\ UNCHANGED <<cacheVars, restRefresher, ret>>

\* a call of the session tracker's sweep raises (the database cannot be
\* reached): run has no try statement, and the task ends
TrackerRaises ==
    /\ booted
    /\ trackerPc \in {"get", "verify"}
    /\ ~trackerStop
    /\ trackerPc' = "raised"
    /\ trackerQueue' = <<>>
    /\ UNCHANGED <<session, issued, trackerStop, sweep, restSession, ret>>

(***************************************************************************)
(* Specifications.                                                         *)
(***************************************************************************)
Init ==
    /\ booted = FALSE
    /\ services = <<>>
    /\ nextServiceId = 1
    /\ plainCreates = 0
    /\ faqs = <<>>
    /\ nextFaqId = 1
    /\ descriptions = <<>>
    /\ backups = <<>>
    /\ mails = 0
    /\ sections = <<>>
    /\ main = [pc |-> "init", attempt_number |-> 0, sleeps |-> <<>>,
               logins |-> 0, log |-> {}, shutdowns |-> <<>>]
    /\ hcp = [logged_in |-> FALSE, keep_alive |-> TRUE, deletes |-> 0]
    /\ refresherStop = FALSE
    /\ admins = <<>>
    /\ nextAdminId = 1
    /\ adminIndexes = "unset"
    /\ adminReq = NoCall
    /\ announcement = <<>>
    /\ requests = 0
    /\ font_settings = <<>>
    /\ images = <<>>
    /\ backups_dir = FALSE
    /\ blog_posts = <<>>
    /\ nextBlogPostId = 1
    /\ verifying = NoVerify
    /\ loading = [i \in Loads |-> NoLoad]
    /\ refresher = [pc |-> "none"]
    /\ ping = [pc |-> "none", keep_alive |-> TRUE, slept |-> 0, gets |-> 0,
               late |-> 0]
    /\ nextAnnouncementId = 1
    /\ now = 0
    /\ session = <<>>
    /\ issued = {}
    /\ trackerPc = "get"
    /\ trackerQueue = <<>>
    /\ trackerStop = FALSE
    /\ sweep = [stale |-> {}, at |-> 0]
    /\ events = {}
    /\ nextEventId = 1
    /\ api_cache = {}
    /\ nextCacheId = 1
    /\ ret = NoCall
    /\ prev = NoCall

NextSession ==
    \/ InitApp
    \/ CreateSessionCall
    \/ VerifySessionCall
    \/ UpdateSessionCall
    \/ TrackerGetSessions
    \/ TrackerVerify
    \/ TrackerSleep
    \/ TrackerWake
    \/ TrackerShutdown
    \/ Tick

SpecSession == Init /\ [][NextSession]_vars

NextEvents ==
    \/ InitApp
    \/ CreateEventCall
    \/ GetEventCall

SpecEvents == Init /\ [][NextEvents]_vars

NextCache ==
    \/ InitApp
    \/ SetCachedApiDataCall
    \/ IsApiCacheExpiredCall
    \/ GetCachedApiDataCall
    \/ Tick

SpecCache == Init /\ [][NextCache]_vars

NextServices ==
    \/ InitApp
    \/ CreateServiceCall
    \/ UpdateServiceCall
    \/ DeleteServiceCall

SpecServices == Init /\ [][NextServices]_vars

NextSeed ==
    \/ InitApp
    \/ InitializeDefaultConfigCall
    \/ UpdateDescriptionCall
    \/ DeleteServiceCall
    \/ DeleteFaqCall

SpecSeed == Init /\ [][NextSeed]_vars

NextBackup ==
    \/ InitApp
    \/ InitializeDefaultConfigCall
    \/ UpdateDescriptionCall
    \/ DeleteServiceCall
    \/ DeleteFaqCall
    \/ CreateDatabaseBackupCall
    \/ RestoreDatabaseBackupCall

SpecBackup == Init /\ [][NextBackup]_vars

NextEmail ==
    \/ InitApp
    \/ PostEmail
    \/ GetEventCall

SpecEmail == Init /\ [][NextEmail]_vars

NextSections ==
    \/ InitApp
    \/ UpdateSectionMetaCall

SpecSections == Init /\ [][NextSections]_vars

NextPassword ==
    \/ InitApp
    \/ VerifyHashedPasswordCall
    \/ VerifyMalformedHashCall

SpecPassword == Init /\ [][NextPassword]_vars

NextReviews ==
    \/ InitApp
    \/ FetchAllReviewsCall

SpecReviews == Init /\ [][NextReviews]_vars

NextBoot ==
    \/ InitApp
    \/ MainStart
    \/ MainWhile
    \/ MainSleep
    \/ MainLogin
    \/ MainCheck
    \/ MainRaise
    \/ MainShutdownTracker
    \/ MainShutdownRefresher
    \/ MainShutdownHcp
    \/ MainTrackerGetSessions
    \/ MainTrackerSleep
    \/ MainTrackerWake

SpecBoot == Init /\ [][NextBoot]_vars

\* every statement of main returns or raises: the sleeps are finite and login
\* waits a bounded time for each element and for the cookie
MainStep ==
    \/ MainStart
    \/ MainWhile
    \/ MainSleep
    \/ MainLogin
    \/ MainCheck
    \/ MainShutdownTracker
    \/ MainShutdownRefresher
    \/ MainShutdownHcp

SpecBootFair == SpecBoot /\ WF_vars(MainStep)

NextAdmins ==
    \/ InitApp
    \/ InitAdministratorsTable
    \/ CreateWebsiteAdministratorCall
    \/ UpdateWebsiteAdministratorCall
    \/ DeleteWebsiteAdministratorCall
    \/ AdministratorSelect
    \/ AdministratorWrite

SpecAdmins == Init /\ [][NextAdmins]_vars

NextAnnouncement ==
    \/ InitApp
    \/ UpdateAnnouncementCall
    \/ GetAnnouncementCall

SpecAnnouncement == Init /\ [][NextAnnouncement]_vars

NextRoutes ==
    \/ InitApp
    \/ InitAdministratorsTable
    \/ CreateSessionCall
    \/ Tick
    \/ PostServiceApi
    \/ PostAdmin

SpecRoutes == Init /\ [][NextRoutes]_vars

NextHcp ==
    \/ HcpLoginCall
    \/ PingWake
    \/ HcpShutdownCall

SpecHcp == Init /\ [][NextHcp]_vars

NextUploads ==
    \/ InitApp
    \/ InitAdministratorsTable
    \/ CreateAdminSession
    \/ CreateRouteIdentCall
    \/ PostAdmin
    \/ PostFontSettingsApi
    \/ PostImageUpload
    \/ UploadDatabaseBackupApi

SpecUploads == Init /\ [][NextUploads]_vars

NextRestore ==
    \/ InitApp
    \/ CreateAdminSession
    \/ UploadDatabaseBackupApi
    \/ RestoreDatabaseBackupCall

SpecRestore == Init /\ [][NextRestore]_vars

NextTracker ==
    \/ InitApp
    \/ CreateSessionCall
    \/ TrackerGetSessions
    \/ TrackerVerify
    \/ TrackerSleep
    \/ TrackerWake
    \/ TrackerRaises
    \/ TrackerShutdown
    \/ Tick

SpecTracker == Init /\ [][NextTracker]_vars

NextHcpFetch ==
    \/ HcpLoginFirstPoll
    \/ GetServicesCall
    \/ GetCalendarCall
    \/ HcpShutdownCall

SpecHcpFetch == Init /\ [][NextHcpFetch]_vars

NextRefresher ==
    \/ InitApp
    \/ HcpLoginFirstPoll
    \/ Tick
    \/ RefresherStart
    \/ RefreshRating
    \/ RefreshReviews
    \/ RefreshHcpServices
    \/ RefresherWhile

SpecRefresher == Init /\ [][NextRefresher]_vars

NextFaqs ==
    \/ InitApp
    \/ CreateFaqCall
    \/ UpdateFaqCall
    \/ DeleteFaqCall

SpecFaqs == Init /\ [][NextFaqs]_vars

(***************************************************************************)
(* Claims.                                                                 *)
(***************************************************************************)

\* C1: verify_session reports False for a session whose timestamp is older
\* than SESSION_TIMEOUT minutes, even when its admin flag is true; for a
\* session within the timeout it reports the row's admin flag; for an absent
\* cookie or a cookie with no row it reports False.
C1_VerifyReportsExpiry ==
    [][Called("verify_session") =>
          LET cookie == ret'.arg[1]
          IN  IF cookie = NoCookie \/ cookie \notin DOMAIN session
              THEN ret'.value = FALSE
              ELSE /\ session[cookie].timestamp < now - SESSION_TIMEOUT
                        => ret'.value = FALSE
                   /\ session[cookie].timestamp > now - SESSION_TIMEOUT
                        => ret'.value = session[cookie].admin]_vars

\* C2: each verification of the session tracker's sweep deletes the row it
\* verifies when that row is older than SESSION_TIMEOUT, and leaves every
\* non-expired row (and every other row) as it was: not deleted, timestamp
\* and admin flag unchanged; when a sweep ends, every row that was older
\* than the timeout when the sweep read the table is gone, unless a login
\* refreshed it in the meantime.
C2_SweepDeletesExpiredOnly ==
    /\ [][Called("verify_session") /\ ret'.arg[2] = "tracker" =>
             LET cookie == ret'.arg[1]
             IN  /\ (/\ cookie \in DOMAIN session
                     /\ session[cookie].timestamp < now - SESSION_TIMEOUT)
                       => cookie \notin DOMAIN session'
                 /\ \A d \in DOMAIN session :
                       (d # cookie \/ ~Expired(session[d].timestamp, now))
                          => d \in DOMAIN session' /\ session'[d] = session[d]
         ]_vars
    /\ [](trackerPc = "sleep" =>
             \A c \in sweep.stale :
                 c \notin DOMAIN session \/ session[c].timestamp >= sweep.at)

C2_Witness ==
    /\ ret.op = "verify_session"
    /\ ret.arg[2] = "tracker"
    /\ ret.arg[1] \in sweep.stale
    /\ ret.arg[1] \notin DOMAIN session
    /\ \E d \in DOMAIN session :
          session[d].admin /\ ~Expired(session[d].timestamp, now)

\* C3: there is at most one event row per cookie; after create_event(c, e)
\* the one row of c is e, so that two create_event calls in a row leave the
\* second event only, and a get_event(c) that follows returns it.
C3_OneEventPerCookie ==
    /\ [](\A c \in Cookies : Cardinality(EventsOf(events, c)) <= 1)
    /\ [](ret.op = "create_event" /\ ret.arg[1] # NoCookie =>
             /\ Cardinality(EventsOf(events, ret.arg[1])) = 1
             /\ \A r \in EventsOf(events, ret.arg[1]) :
                   r.event = ret.arg[2] /\ r.type = ret.arg[3])
    /\ [][(/\ ret.op = "create_event"
           /\ ret.arg[1] # NoCookie
           /\ Called("get_event")
           /\ ret'.arg[1] = ret.arg[1])
             => ret'.value = <<ret.arg[2], ret.arg[3]>>]_vars

C3_Witness ==
    /\ prev.op = "create_event"
    /\ ret.op = "create_event"
    /\ ret.arg[1] # NoCookie
    /\ prev.arg[1] = ret.arg[1]
    /\ prev.arg[2] # ret.arg[2]
    /\ Cardinality(EventsOf(events, ret.arg[1])) = 1

\* C4: the get_event call that returns an event deletes the row it returns,
\* and a get_event for the same cookie right after it returns (None, None);
\* get_event without a cookie returns (None, None) and changes nothing.
C4_EventDeliveredOnce ==
    [][Called("get_event") =>
          /\ ret'.value # NoEvent =>
                \E r \in EventsOf(events, ret'.arg[1]) :
                    /\ <<r.event, r.type>> = ret'.value
                    /\ r \notin events'
          /\ ret'.arg[1] = NoCookie =>
                ret'.value = NoEvent /\ events' = events
          /\ (ret.op = "get_event" /\ ret.value # NoEvent
                /\ ret'.arg = ret.arg) => ret'.value = NoEvent]_vars

C4_Witness ==
    /\ prev.op = "get_event"
    /\ prev.value # NoEvent
    /\ ret.op = "get_event"
    /\ ret.arg = prev.arg
    /\ ret.value = NoEvent

\* C5: is_api_cache_expired(t) is true while no row of type t was ever
\* written, false right after set_cached_api_data(t, data, h) with h > 0
\* (and for as long as the clock has not reached that row's expires_at),
\* and true once the clock has passed the expires_at of the last row
\* written for t.
C5_CacheExpiry ==
    [][Called("is_api_cache_expired") =>
          LET t == ret'.arg[1]
              rows == CacheOf(api_cache, t)
          IN  /\ rows = {} => ret'.value = TRUE
              /\ (/\ ret.op = "set_cached_api_data"
                  /\ ret.arg[1] = t
                  /\ ret.arg[3] > 0
                  /\ now = ret.value - ret.arg[3]) => ret'.value = FALSE
              /\ \A r \in rows :
                    (\A q \in rows : q.id <= r.id) =>
                        /\ r.expires_at > now => ret'.value = FALSE
                        /\ r.expires_at < now => ret'.value = TRUE]_vars

C5_Witness ==
    /\ ret.op = "is_api_cache_expired"
    /\ ret.value = TRUE
    /\ \E r \in CacheOf(api_cache, ret.arg[1]) :
          r.is_valid /\ r.expires_at > r.cached_at /\ r.expires_at < now
    /\ \E u \in CacheTypes : CacheOf(api_cache, u) = {}

\* C6: set_cached_api_data deletes no row: every earlier row of the type
\* written stays, with is_valid = false, rows of the other types stay as
\* they were, and at most one row per cache_type is valid, the one written
\* last.
C6_CacheRowsKept ==
    /\ [][Called("set_cached_api_data") =>
             /\ \A r \in api_cache :
                   IF r.cache_type = ret'.arg[1]
                   THEN [r EXCEPT !.is_valid = FALSE] \in api_cache'
                   ELSE r \in api_cache'
             /\ Cardinality(api_cache') = Cardinality(api_cache) + 1]_vars
    /\ [](\A t \in CacheTypes :
             /\ Cardinality({r \in CacheOf(api_cache, t) : r.is_valid}) <= 1
             /\ \A r \in CacheOf(api_cache, t) :
                   r.is_valid <=> (\A q \in CacheOf(api_cache, t) :
                                      q.id <= r.id))

C6_Witness ==
    /\ ret.op = "set_cached_api_data"
    /\ \E r, q \in CacheOf(api_cache, ret.arg[1]) :
          r.is_valid /\ ~q.is_valid /\ q.id < r.id
    /\ \E u \in api_cache : u.cache_type # ret.arg[1] /\ u.is_valid

\* C7: n services created in a row with display_order 0, the first of them
\* on a table with no active service, get display_order 1..n in creation
\* order; delete_service removes the service from get_services and leaves
\* the other services listed in the order they had.
RECURSIVE Without(_, _)
Without(seq, x) ==
    IF seq = <<>> THEN <<>>
    ELSE IF Head(seq) = x THEN Without(Tail(seq), x)
    ELSE <<Head(seq)>> \o Without(Tail(seq), x)

C7_PlainCreateOrder ==
    /\ [](plainCreates > 0 =>
             LET listed == get_services(services)
             IN  /\ Len(listed) = plainCreates
                 /\ \A i \in 1..Len(listed) :
                       services[listed[i]].display_order = i
                 /\ \A i, j \in 1..Len(listed) :
                       i < j => listed[i] < listed[j])
    /\ [][Called("delete_service") =>
             get_services(services')
                = Without(get_services(services), ret'.arg[1])]_vars

C7_Witness ==
    /\ ret.op = "delete_service"
    /\ \E a, b, c \in DOMAIN services :
          /\ a < b /\ b < c
          /\ ~services[a].is_active
          /\ services[b].display_order = 1
          /\ services[c].display_order = 2
          /\ b = ret.arg[1]
          /\ ~services[b].is_active
          /\ get_services(services) = <<c>>

\* C8: after any sequence of create, update and delete calls on services
\* (and on FAQs) the display_order values of the active rows are exactly
\* 1..n for n active rows.
Dense(tbl) ==
    /\ {tbl[i].display_order : i \in ActiveIds(tbl)}
          = 1..Cardinality(ActiveIds(tbl))
    /\ \A i, j \in ActiveIds(tbl) :
          tbl[i].display_order = tbl[j].display_order => i = j

C8_DenseDisplayOrder == Dense(services) /\ Dense(faqs)

\* C9: the seed routine only inserts: it overwrites no description that
\* exists, inserts default services (FAQs) only when the table has no active
\* row, and changes nothing when it runs right after itself.
C9_SeedIdempotent ==
    [][Called("_initialize_default_config") =>
          /\ \A k \in DOMAIN descriptions :
                k \in DOMAIN descriptions' /\ descriptions'[k] = descriptions[k]
          /\ \A i \in DOMAIN services :
                i \in DOMAIN services' /\ services'[i] = services[i]
          /\ \A i \in DOMAIN faqs :
                i \in DOMAIN faqs' /\ faqs'[i] = faqs[i]
          /\ ActiveIds(services) # {} => services' = services
          /\ ActiveIds(faqs) # {} => faqs' = faqs
          /\ ret.op = "_initialize_default_config" =>
                /\ services' = services
                /\ faqs' = faqs
                /\ descriptions' = descriptions]_vars

C9_Witness ==
    /\ ret.op = "_initialize_default_config"
    /\ ret.value = [descriptions |-> 0, services |-> 0, faqs |-> 0]
    /\ \E k \in DOMAIN DEFAULT_DESCRIPTIONS : descriptions[k] = "edited"
    /\ \E i, j \in DOMAIN services :
          services[i].is_active /\ ~services[j].is_active
    /\ ActiveIds(faqs) # {}

\* C10: create_database_backup produces a backup file, and restoring that
\* file into an empty database of the same schema reproduces the rows of
\* every table, except for the tables the backup recorded as errored, which
\* restore leaves as they are.
C10_BackupRestoreRoundTrip ==
    ret.op = "create_database_backup" =>
        /\ ret.value.success
        /\ ret.value.filename \in DOMAIN backups
        /\ LET backup_data == backups[ret.value.filename]
           IN  \A t \in TableNames :
                   restore_database_backup(backup_data, EmptyDb).db[t]
                      = IF t \in ErroredTables(backup_data)
                        THEN EmptyDb[t]
                        ELSE Db[t]

\* C11: a POST /email whose token fails verification never calls send_mail
\* and leaves an error event that the requester's next get_event returns,
\* whether or not the request carries a session cookie.
C11_FailedCaptchaFlashesError ==
    [][(Called("post_email") /\ ~ret'.arg[2]) =>
          /\ mails' = mails
          /\ get_event_query(events', ret'.arg[1]) # {}
          /\ \A r \in get_event_query(events', ret'.arg[1]) :
                r.event = "recaptcha_failed" /\ r.type = "error"]_vars

\* C12: update_section_meta turns a heading whose tag starts with the word
\* grid into a top-level panel with options.grid = true and grid_style =
\* "grid-template-columns: " followed by the remaining tokens, appends the
\* untagged pairs that follow it, up to the next tagged heading, to that
\* panel's siblings in their order, and turns a heading with another tag
\* into a top-level panel with options.grid = false and no sibling from
\* before it.
Untagged(panels, i, j) == \A k \in i..j : panels[k][1].tag = <<>>

C12_SectionGridParsing ==
    ret.op = "update_section_meta" =>
        LET panels == ret.arg[2]
            out == ret.value.meta.panels
        IN  /\ ~ret.value.raised => sections[ret.arg[1]] = ret.value.meta
            /\ \A i \in DOMAIN panels :
                  panels[i][1].tag # <<>> =>
                     \E k \in DOMAIN out :
                        /\ out[k].heading = panels[i][1]
                        /\ out[k].body = i
                        /\ IF panels[i][1].tag[1] = "grid"
                           THEN /\ out[k].options =
                                      [grid |-> TRUE,
                                       grid_style |->
                                          <<"grid-template-columns: ">>
                                             \o Tail(panels[i][1].tag)]
                                /\ \A j \in DOMAIN panels :
                                      (j > i /\ Untagged(panels, i + 1, j)) =>
                                         /\ Len(out[k].siblings) >= j - i
                                         /\ out[k].siblings[j - i] =
                                               [heading |-> panels[j][1],
                                                body |-> j,
                                                siblings |-> <<>>,
                                                options |-> [grid |-> FALSE]]
                           ELSE /\ out[k].options = [grid |-> FALSE]
                                /\ \A x \in DOMAIN out[k].siblings :
                                      out[k].siblings[x].body > i

C12_Witness ==
    /\ ret.op = "update_section_meta"
    /\ Len(ret.arg[2]) = 3
    /\ ret.arg[2][1][1].tag = <<"grid", "1fr", "1fr">>
    /\ ret.arg[2][2][1].tag = <<>>
    /\ ret.arg[2][3][1].tag = <<"other">>
    /\ Len(sections["home"].panels) = 2
    /\ Len(sections["home"].panels[1].siblings) = 1
    /\ sections["home"].panels[1].siblings[1].body = 2
    /\ sections["home"].panels[2].options = [grid |-> FALSE]

\* C13 as stated: verify_password(p, hash_password(p)) is true,
\* verify_password(q, hash_password(p)) is false whenever q differs from p,
\* and a stored hash without the $ separator, or one that is no string,
\* verifies as false.
C13_HashRoundTripAnyPassword ==
    /\ ret.op = "verify_password" =>
          (ret.value <=> ret.arg[1] = ret.arg[2].password)
    /\ ret.op = "verify_malformed" => ret.value = FALSE

\* C13 amended: verify_password(p, hash_password(p)) is true, and for
\* passwords of at most 64 bytes verify_password(q, hash_password(p)) is
\* false when q and p differ in more than NUL characters at their end and
\* true when they differ in nothing else; a stored hash that does not split
\* in two at $, or a NULL hash, verifies as false.
C13_HashRoundTrip ==
    /\ ret.op = "verify_password" =>
          LET q == ret.arg[1]
              p == ret.arg[2].password
          IN  /\ q = p => ret.value = TRUE
              /\ ret.value <=> StripNul(q) = StripNul(p)
    /\ ret.op = "verify_malformed" => ret.value = FALSE

C13_Witness ==
    /\ ret.op = "verify_password"
    /\ ret.arg[1] = <<<<"a">>, Nul>>
    /\ ret.arg[2].password = <<<<"a">>>>
    /\ ret.value = TRUE

\* C14: when the reviews were fetched, the display list of fetch_all_reviews
\* holds exactly the reviews with rating 5 and a trimmed text of more than
\* 20 characters, latest first, cut to the first 10, and its rating is the
\* mean of the ratings in 1..5 over all the reviews (absent when there is
\* none).
Eligible(all_reviews) ==
    {i \in DOMAIN all_reviews :
        all_reviews[i].rating = 5 /\ all_reviews[i].text_len > 20}

Rated(all_reviews) ==
    {i \in DOMAIN all_reviews : all_reviews[i].rating \in 1..5}

RECURSIVE SumRatings(_, _)
SumRatings(all_reviews, S) ==
    IF S = {} THEN 0
    ELSE LET i == CHOOSE x \in S : TRUE
         IN  all_reviews[i].rating + SumRatings(all_reviews, S \ {i})

C14_DisplayListAndMean ==
    (ret.op = "fetch_all_reviews" /\ ret.arg[1]) =>
        LET all_reviews == ret.arg[2]
            shown == ret.value.reviews
            E == Eligible(all_reviews)
            cap == IF Cardinality(E) < 10 THEN Cardinality(E) ELSE 10
        IN  /\ Len(shown) = cap
            /\ \A x \in DOMAIN shown : shown[x] \in E
            /\ \A x, y \in DOMAIN shown :
                  x < y => /\ shown[x] # shown[y]
                           /\ all_reviews[shown[x]].time
                                 >= all_reviews[shown[y]].time
            /\ \A x \in DOMAIN shown :
                  \A i \in E :
                     (\A y \in DOMAIN shown : shown[y] # i) =>
                        all_reviews[shown[x]].time >= all_reviews[i].time
            /\ ret.value.rating =
                  <<SumRatings(all_reviews, Rated(all_reviews)),
                    Cardinality(Rated(all_reviews))>>

\* C15: the bootstrap attempts the login up to 3 times: when every attempt
\* fails exactly 3 attempts were made, attempt k comes after a sleep of
\* k x 2 seconds, and the first attempt that succeeds ends the loop.
C15_ThreeLoginAttempts ==
    /\ main.logins <= 3
    /\ main.sleeps = [k \in 1..Len(main.sleeps) |-> k * 2]
    /\ Len(main.sleeps) \in {main.logins, main.logins + 1}
    /\ hcp.logged_in => main.pc \notin {"while", "sleep", "login"}
    /\ (main.pc = "check" /\ ~hcp.logged_in) => main.logins = 3

\* C16: the login loop ends, and the listener is started after it whether or
\* not a login succeeded: when every attempt failed the failure is logged
\* and site.start() is the next statement; "Server never started" is never
\* logged.
LoopLeft ==
    main.pc \in {"check", "serving", "session_tracker.shutdown",
                 "api_cache_refresher.shutdown", "hcp.shutdown", "done"}

C20_ShutdownOrder ==
    /\ []((main.pc = "done") =>
             /\ main.shutdowns
                   = <<"session_tracker", "api_cache_refresher", "hcp">>
             /\ trackerStop /\ refresherStop /\ ~hcp.keep_alive
             /\ hcp.deletes = IF hcp.logged_in THEN 1 ELSE 0)
    /\ [](main.pc \in {"init", "while", "sleep", "login", "check",
                        "serving"} => main.shutdowns = <<>> /\ hcp.deletes = 0)
    /\ [][main.pc = "session_tracker.shutdown" /\ main'.pc # main.pc
             => main'.pc = "api_cache_refresher.shutdown"]_vars
    /\ (main.pc = "session_tracker.shutdown") ~> (main.pc = "done")

C20_Witness ==
    /\ main.pc = "done"
    /\ hcp.logged_in
    /\ hcp.deletes = 1
    /\ trackerPc = "stopped"

(***************************************************************************)
(* C18: no two active administrators share a lower-cased username or a     *)
(* lower-cased email, whatever create, update and delete calls were made   *)
(* and however they overlapped.  A create or an update whose identifiers   *)
(* collide with another active row when it is called is rejected and       *)
(* changes no row; a create whose identifiers collide with no active row   *)
(* inserts an active row with them, also when a deactivated row has them.  *)
(***************************************************************************)
ActiveAdministratorsUnique ==
    \A i, j \in ActiveIds(admins) :
        i # j => /\ lower(admins[i].username) # lower(admins[j].username)
                 /\ lower(admins[i].email) # lower(admins[j].email)

AdminCallChecked ==
    /\ ret'.seq # ret.seq
    /\ ret'.op \in {"create_website_administrator",
                    "update_website_administrator"}
    /\ Len(ret'.arg) = 3

C18_ActiveAdministratorsUnique ==
    /\ []ActiveAdministratorsUnique
    /\ [][AdminCallChecked =>
            LET admin_id == ret'.arg[1]
                username == ret'.arg[2]
                email == ret'.arg[3]
                collides ==
                    \E i \in ActiveIds(admins) \ {admin_id} :
                        \/ lower(admins[i].username) = lower(username)
                        \/ lower(admins[i].email) = lower(email)
            IN  /\ collides => /\ admins' = admins
                               /\ ret'.value = Raised("ValueError")
                /\ (~collides /\ admin_id = 0) =>
                      /\ ret'.value.raised = "None"
                      /\ DOMAIN admins' = DOMAIN admins \cup {ret'.value.id}
                      /\ ret'.value.id \notin DOMAIN admins
                      /\ admins'[ret'.value.id].username = username
                      /\ admins'[ret'.value.id].email = email
                      /\ admins'[ret'.value.id].is_active = TRUE
                      /\ \A i \in DOMAIN admins : admins'[i] = admins[i]]_vars

(***************************************************************************)
(* C19: whatever update_announcement calls were made one after the other,  *)
(* at most one announcement row is active.  After an update with blank     *)
(* text no row is active; after an update with other text the only row     *)
(* that can be active is the one the update inserted, which holds the      *)
(* stripped text, the type and the active flag of the call.  What          *)
(* get_announcement returns is that active row, or nothing.                *)
(***************************************************************************)
Blank(text) == text \in {"", " "}

C19_OneActiveAnnouncement ==
    /\ [](Cardinality({i \in DOMAIN announcement :
                          announcement[i].active}) <= 1)
    /\ [][Called("update_announcement") =>
            LET text == ret'.arg[1]
                active_rows == {i \in DOMAIN announcement' :
                                   announcement'[i].active}
            IN  /\ Blank(text) => /\ active_rows = {}
                                  /\ DOMAIN announcement' = DOMAIN announcement
                /\ ~Blank(text) =>
                      \E new \in DOMAIN announcement' \ DOMAIN announcement :
                          /\ DOMAIN announcement' =
                                 DOMAIN announcement \cup {new}
                          /\ active_rows \subseteq {new}
                          /\ announcement'[new].active = ret'.arg[3]
                          /\ announcement'[new].type = ret'.arg[2]
                          /\ announcement'[new].text \in {"hi", "yo"}]_vars
    /\ [][Called("get_announcement") =>
            \/ /\ ret'.value.id = 0
               /\ \A i \in DOMAIN announcement : ~announcement[i].active
            \/ /\ ret'.value.id \in DOMAIN announcement
               /\ announcement[ret'.value.id].active
               /\ ret'.value.text = announcement[ret'.value.id].text]_vars

\* an active announcement was replaced by another active one
C19_Witness ==
    /\ ret.op = "update_announcement"
    /\ ret.arg[1] = " hi "
    /\ \E i, j \in DOMAIN announcement :
          /\ i < j
          /\ announcement[i].text = "yo"
          /\ ~announcement[i].active
          /\ announcement[j].text = "hi"
          /\ announcement[j].active
(***************************************************************************)
(* C17: a request to POST /admin or POST /api/services whose cookie does   *)
(* not name a session with admin = true that has not expired is answered   *)
(* HTTPUnauthorized and changes no service, FAQ, description,              *)
(* announcement, administrator or backup file.                             *)
(***************************************************************************)
AdminSession(cookie) ==
    /\ cookie \in DOMAIN session
    /\ session[cookie].admin = TRUE
    /\ ~Expired(session[cookie].timestamp, now)

C17_AdminRoutesNeedAdminSession ==
    [][(/\ ret'.seq # ret.seq
        /\ ret'.op \in {"post_admin", "post_service_api"}
        /\ ~AdminSession(ret'.arg[1]))
       => /\ ret'.value = "HTTPUnauthorized"
          /\ UNCHANGED <<services, faqs, descriptions, announcement, admins,
                         backups>>]_vars
(***************************************************************************)
(* C21: the keep-alive loop issues a GET only while keep_alive is true;    *)
(* once shutdown() has cleared keep_alive the loop issues no further GET.  *)
(***************************************************************************)
C21_NoPingAfterShutdown ==
    [][ping'.gets > ping.gets => hcp.keep_alive]_vars

(***************************************************************************)
(* C26: login() sets logged_in only after the ajs_user_id cookie was seen  *)
(* at one of max_wait_time polls; when a two-factor indicator is found or  *)
(* the cookie is seen at none of the polls, login raises and logged_in     *)
(* stays false; and whenever login returns or raises, the browser it       *)
(* launched has been closed.                                               *)
(***************************************************************************)
C26_LoginNeedsCookieAndClosesBrowser ==
    [][Called("login") =>
          LET two_factor == ret'.arg[3]
              cookie_at == ret'.arg[4]
          IN  /\ (hcp'.logged_in /\ ~hcp.logged_in) =>
                    /\ cookie_at <= max_wait_time
                    /\ ret'.value.polls = cookie_at
                    /\ ~ret'.value.raised
              /\ (two_factor \/ cookie_at > max_wait_time) =>
                    /\ ret'.value.raised
                    /\ ~hcp'.logged_in
              /\ ret'.value.polls <= max_wait_time
              /\ ret'.value.launched => ret'.value.closed]_vars

\* C22: no exception raised inside one cycle of the session tracker, of the
\* cache refresher or of the keep-alive loop ends that loop: none of the three
\* tasks is ever ended by an exception.
C22_NoExceptionEndsLoop ==
    /\ trackerPc # "raised"
    /\ refresher.pc # "raised"
    /\ ping.pc # "raised"

\* C23: a refresh of the scheduling-services cache makes at most 3 attempts
\* with 15 seconds between them: a fetch that is empty because login has not
\* completed is followed by another attempt, and any other outcome ends the
\* refresh at once.
C23_HcpRefreshRetried ==
    [][Called("refresh_hcp_services") =>
          LET v == ret'.value
              logged_in == ret'.arg[2]
          IN  /\ v.attempts \in 1..3
              /\ Len(v.delays) = v.attempts - 1
              /\ \A i \in DOMAIN v.delays : v.delays[i] = 15
              /\ ~logged_in => v.attempts > 1
              /\ logged_in => v.attempts = 1]_vars

\* C24: when the scheduling integration yields no services,
\* get_hcp_services_fresh returns an empty services list with the source tag
\* "hcp_empty" or "error", and refresh_hcp_services_cache writes no
\* hcp_services row.
C24_NoServicesNoCacheRow ==
    [][Called("refresh_hcp_services")
          /\ ret'.value.document.services.online_bookable = <<>> =>
          /\ ret'.value.document.source \in {"hcp_empty", "error"}
          /\ ret'.value.document.total_found = 0
          /\ ~ret'.value.wrote
          /\ api_cache' = api_cache]_vars

\* C27: when the fresh fetch of the rating or of the reviews raises or gives
\* no usable data, the refresher writes nothing to api_cache: no row is
\* inserted and every row keeps its is_valid and expires_at.
C27_UnusableFetchWritesNothing ==
    [][(Called("refresh_google_rating") \/ Called("refresh_google_reviews"))
          /\ ret'.arg[1] \in {"raises", "empty"} =>
          /\ api_cache' = api_cache
          /\ nextCacheId' = nextCacheId]_vars

\* an unusable reviews fetch has been handled while a reviews row of an
\* earlier fetch was valid
C27_Witness ==
    /\ ret.op = "refresh_google_reviews"
    /\ ret.arg[1] = "empty"
    /\ ~ret.value.wrote
    /\ \E r \in CacheOf(api_cache, "google_reviews") : r.is_valid = TRUE

\* C25: while logged_in is false, get_services and get_calendar return an
\* empty result and make no HTTP request; once logged in, neither raises on a
\* response with a non-success status or with a text that cannot be parsed.
C25_FetchesNeverRaise ==
    [][Called("hcp.get_services") \/ Called("hcp.get_calendar") =>
          LET v == ret'.value
              logged_in == ret'.arg[1]
              resp == ret'.arg[2]
          IN  /\ ~logged_in => v.value = <<>> /\ v.http = 0 /\ ~v.raised
              /\ logged_in /\ ~resp.raises => ~v.raised]_vars

\* C28: every mutating admin endpoint records a flash event for the admin's
\* cookie: after a request that an admin route accepted and that changed the
\* services, the FAQs, the descriptions, the announcement or the
\* administrators, a new event is pending for the cookie of the request.
C28_AdminMutationRecordsEvent ==
    [][(/\ Called("post_service_api") \/ Called("post_admin")
        /\ <<services, faqs, descriptions, announcement, admins>>'
               # <<services, faqs, descriptions, announcement, admins>>)
       => /\ nextEventId' = nextEventId + 1
          /\ \E ev \in events' \ events : ev.cookie = ret'.arg[1]]_vars

\* a request that the validation of an admin route refused
FailedValidation ==
    \/ /\ Called("post_admin")
       /\ \E ev \in events' \ events : ev.event = "Failed to add"
    \/ /\ \/ Called("post_font_settings_api")
          \/ Called("post_image_upload")
          \/ Called("upload_database_backup_api")
       /\ ret'.value = "400"

\* C29: an admin request that fails validation (an administrator without a
\* password or with the username or email of an active administrator, a
\* blank heading or body font, an image with a disallowed extension or an
\* unknown key, a backup that is too large, has a wrong extension or is not
\* JSON with the key "tables") leaves the content tables and every file as
\* they were; only the flash event may change.
C29_FailedValidationChangesNothing ==
    [][FailedValidation
       => UNCHANGED <<services, faqs, descriptions, announcement, admins,
                      font_settings, images, backups>>]_vars

\* C29 as stated: after such a request nothing but the flash event has
\* changed, on disk or in the database.
C29_OnlyFlashEventChanges ==
    [][FailedValidation
       => UNCHANGED <<services, faqs, descriptions, announcement, admins,
                      font_settings, images, backups, backups_dir,
                      session>>]_vars

\* a JSON backup without the key "tables" was refused while the tables held
\* the seeded content and an administrator
C29_Witness ==
    /\ ret.op = "upload_database_backup_api"
    /\ ret.value = "400"
    /\ ret.arg[2] = <<"b.json", FALSE, 2>>
    /\ backups_dir
    /\ backups = <<>>
    /\ services # <<>>
    /\ admins # <<>>

\* C30: restore_database_backup handles every table of the backup once: a
\* table recorded with an error is skipped and left as it is, a table that
\* fails goes to warnings and does not stop the tables after it, every table
\* counted in tables_restored holds the rows of the backup, and
\* tables_restored, the warnings and the skipped tables add up to the tables
\* of the backup; a missing file or a document without the key "tables"
\* gives success = false and leaves the database as it is.
C30_RestoreHandlesEveryTable ==
    [][Called("restore_database_backup") =>
          LET backup_filename == ret'.arg[1]
              result == ret'.value
          IN  IF backup_filename \notin DOMAIN backups
              THEN ~result.success /\ Db' = Db
              ELSE IF ~backups[backup_filename].json
                      \/ ~backups[backup_filename].has_tables
              THEN ~result.success /\ Db' = Db
              ELSE LET items == backups[backup_filename].tables
                       errored == ErroredTables(backups[backup_filename])
                       failed == {result.warnings[i] :
                                     i \in DOMAIN result.warnings}
                   IN  /\ result.success
                       /\ result.tables_restored + Len(result.warnings)
                             + Cardinality(errored) = Len(items)
                       /\ \A i \in DOMAIN items :
                             LET t == items[i].table_name
                             IN  /\ t \in errored \cap TableNames =>
                                       Db'[t] = Db[t]
                                 /\ t \in TableNames \ errored =>
                                       /\ t \notin failed
                                       /\ Db'[t] = inserted_rows(t,
                                              items[i].table_data.data)]_vars

\* C31: create_database_backup never raises to its caller: it returns
\* success = true with a backup document that has one entry for every public
\* table (an error entry for a table whose export failed), or it returns
\* success = false with an error text.
C31_BackupNeverRaises ==
    ret.op = "create_database_backup" =>
        /\ "raised" \notin DOMAIN ret.value
        /\ ret.value.success =>
              /\ ret.value.filename \in DOMAIN backups
              /\ {backups[ret.value.filename].tables[i].table_name :
                     i \in DOMAIN backups[ret.value.filename].tables}
                    = TableNames

\* C32: update_section_meta stores every panel and every sibling with the
\* bracket tag taken out of its heading: no heading in the sections table
\* carries an option tag.
C32_StoredHeadingsHaveNoTag ==
    \A section \in DOMAIN sections :
        \A k \in DOMAIN sections[section].panels :
            LET panel == sections[section].panels[k]
            IN  /\ panel.heading.tag = <<>>
                /\ \A x \in DOMAIN panel.siblings :
                      panel.siblings[x].heading.tag = <<>>

\* C33: an untagged pair that follows a heading with a tag other than grid
\* becomes a top-level panel of its own and is a sibling of no panel,
\* wherever the grid panel before them stands, index 0 included.
C33_NonGridTagEndsGrid ==
    ret.op = "update_section_meta" =>
        LET panels == ret.arg[2]
            out == ret.value.meta.panels
        IN  \A i, j \in DOMAIN panels :
               (/\ i < j
                /\ panels[i][1].tag # <<>>
                /\ panels[i][1].tag[1] # "grid"
                /\ Untagged(panels, i + 1, j)) =>
                  /\ \E k \in DOMAIN out :
                        out[k].heading = panels[j][1] /\ out[k].body = j
                  /\ \A k \in DOMAIN out :
                        \A x \in DOMAIN out[k].siblings :
                           out[k].siblings[x].body # j


(***************************************************************************)
(* The blog routes: POST /api/blog-posts.                                  *)
(***************************************************************************)
ContentTypes == {"application/json", "multipart/form-data"}
BlogImages == {"", "x.png", "x.exe"}    \* field.filename of the image part
PostIds == 0..MaxBlogPostId             \* data.get('id'); 0 when it is absent
BlogTitles == {"", "t"}                 \* "" when data has no 'title'

\* INSERT INTO blog_posts ... RETURNING id
create_blog_post(posts, title, image_data, id) ==
    [i \in DOMAIN posts \cup {id} |->
        IF i = id THEN [title |-> title, image_data |-> image_data]
        ELSE posts[i]]

\* UPDATE blog_posts SET ... WHERE id = %s; the result is rowcount > 0
update_blog_post(posts, post_id, title, image_data) ==
    [table |-> [i \in DOMAIN posts |->
                   IF i = post_id
                   THEN [title |-> title, image_data |-> image_data]
                   ELSE posts[i]],
     value |-> post_id \in DOMAIN posts]

\* what post_blog_post_api answers: the status, and 'success' and 'id' of
\* the JSON body
BlogResponse(status, success, id) ==
    [status |-> status, success |-> success, id |-> id]

\* post_blog_post_api(request, cookie); ret.arg = <<cookie, content type,
\* id, title, file name of the image part>>.  The names image_data and
\* image_filename are assigned in the multipart branch only, so reading
\* them after a JSON body raises UnboundLocalError, which the handler's
\* except clause turns into the answer 500
PostBlogPostApi ==
    /\ booted
    /\ \E cookie \in CookieArgs, content_type \in ContentTypes,
          post_id \in PostIds, title \in BlogTitles,
          image_filename \in BlogImages :
          LET v == verify_session(session, cookie, TRUE, FALSE, now)
              arg == <<cookie, content_type, post_id, title, image_filename>>
              file_ext == splitext(image_filename)
              image_base64 == IF image_filename # "" THEN image_filename
                              ELSE ""
              existing_image == IF post_id \in DOMAIN blog_posts
                                THEN blog_posts[post_id].image_data ELSE ""
              final_image == IF image_base64 # "" THEN image_base64
                             ELSE existing_image
              u == update_blog_post(blog_posts, post_id, title, final_image)
          IN  /\ session' = v.session
              /\ content_type = "application/json" => image_filename = ""
              /\ IF ~v.value
                 THEN /\ UNCHANGED <<blogVars, eventVars>>
                      /\ Returns("post_blog_post_api", arg,
                                 BlogResponse(401, FALSE, 0))
                 ELSE IF content_type = "application/json"
                 THEN /\ UNCHANGED blogVars
                      /\ RouteEvent(cookie, "Failed to save blog post",
                                    "error")
                      /\ Returns("post_blog_post_api", arg,
                                 BlogResponse(500, FALSE, 0))
                 ELSE IF image_filename # ""
                         /\ file_ext \notin allowed_extensions
                 THEN /\ UNCHANGED <<blogVars, eventVars>>
                      /\ Returns("post_blog_post_api", arg,
                                 BlogResponse(400, FALSE, 0))
                 ELSE IF title = ""
                 THEN /\ UNCHANGED blogVars
                      /\ RouteEvent(cookie, "Failed to save blog post",
                                    "error")
                      /\ Returns("post_blog_post_api", arg,
                                 BlogResponse(500, FALSE, 0))
                 ELSE IF post_id # 0
                 THEN /\ blog_posts' = u.table
                      /\ UNCHANGED nextBlogPostId
                      /\ IF u.value
                         THEN /\ RouteEvent(cookie, "Blog post updated",
                                            "success")
                              /\ Returns("post_blog_post_api", arg,
                                         BlogResponse(200, TRUE, 0))
                         ELSE /\ UNCHANGED eventVars
                              /\ Returns("post_blog_post_api", arg,
                                         BlogResponse(500, FALSE, 0))
                 ELSE /\ nextBlogPostId <= MaxBlogPostId
                      /\ blog_posts' = create_blog_post(blog_posts, title,
                                           image_base64, nextBlogPostId)
                      /\ nextBlogPostId' = nextBlogPostId + 1
                      /\ RouteEvent(cookie, "Blog post created", "success")
                      /\ Returns("post_blog_post_api", arg,
                                 BlogResponse(200, TRUE, nextBlogPostId))
    /\ UNCHANGED <<booted, now, issued, trackerPc, trackerQueue, trackerStop,
                   sweep, cacheVars, contentVars, backups, mails, sections,
                   bootVars, adminVars, annVars, requests, ping, refresher,
                   uploadVars, flightVars, prev>>

NextBlog ==
    \/ InitApp
    \/ CreateAdminSession
    \/ PostBlogPostApi

SpecBlog == Init /\ [][NextBlog]_vars

\* C34: an administrator's POST /api/blog-posts with a JSON body that has a
\* title and content is answered with success: without an id a post is
\* created and its id returned, with the id of a post that post is updated.
C34_JsonBlogPostAccepted ==
    (/\ ret.op = "post_blog_post_api"
     /\ ret.arg[2] = "application/json"
     /\ ret.value.status # 401
     /\ ret.arg[4] # ""
     /\ ret.arg[3] = 0 \/ ret.arg[3] \in DOMAIN blog_posts) =>
        /\ ret.value.success
        /\ ret.arg[3] = 0 => ret.value.id \in DOMAIN blog_posts
        /\ ret.arg[3] # 0 => blog_posts[ret.arg[3]].title = ret.arg[4]

(***************************************************************************)
(* POST /login.                                                            *)
(***************************************************************************)
\* post_login(request, cookie); ret.arg = <<cookie, username>>, ret.value
\* tells which of its create_event calls the handler made.  verified is
\* what verify_recaptcha answered, auth the outcome of the authentication
\* attempts of create_session; a form without username or password is the
\* username "".  The redirect that answers the request sets no cookie.
PostLogin ==
    /\ booted
    /\ requests < MaxRequests
    /\ requests' = requests + 1
    /\ \E cookie \in CookieArgs, verified \in BOOLEAN,
          username \in Usernames, auth \in AuthOutcomes :
          LET arg == <<cookie, username>>
              record == [timestamp |-> now, username |-> username,
                         admin |-> TRUE]
          IN  IF ~verified
              THEN /\ RouteEvent(cookie, "Login failed: reCAPTCHA", "error")
                   /\ UNCHANGED <<session, issued>>
                   /\ Returns("post_login", arg, "recaptcha")
              ELSE IF username = ""
              THEN /\ UNCHANGED <<session, issued, eventVars>>
                   /\ Returns("post_login", arg, "None")
              ELSE IF auth = "failed"
              THEN /\ RouteEvent(cookie, "Login failed", "error")
                   /\ UNCHANGED <<session, issued>>
                   /\ Returns("post_login", arg, "failed")
              ELSE /\ IF cookie # NoCookie
                      THEN /\ session' = update_session(session, cookie,
                                                        record)
                           /\ UNCHANGED issued
                      ELSE \E fresh \in Cookies \ issued :
                              /\ session' = (fresh :> record) @@ session
                              /\ issued' = issued \cup {fresh}
                   /\ RouteEvent(cookie, "Login successful", "success")
                   /\ Returns("post_login", arg, "successful")
    /\ UNCHANGED <<booted, now, trackerPc, trackerQueue, trackerStop, sweep,
                   cacheVars, contentVars, backups, mails, sections,
                   bootVars, adminVars, annVars, extraVars, prev>>

NextLogin ==
    \/ InitApp
    \/ CreateAdminSession
    \/ Tick
    \/ TrackerGetSessions
    \/ TrackerVerify
    \/ TrackerSleep
    \/ TrackerWake
    \/ PostLogin

SpecLogin == Init /\ [][NextLogin]_vars

\* C35: whenever POST /login has recorded 'Login successful', the session
\* table has a row for the cookie of that request and its admin flag is
\* true; a request that carried no cookie has a new row with the flag.
C35_LoginSuccessHasAdminRow ==
    (ret.op = "post_login" /\ ret.value = "successful") =>
        IF ret.arg[1] # NoCookie
        THEN /\ ret.arg[1] \in DOMAIN session
             /\ session[ret.arg[1]].admin
        ELSE \E c \in DOMAIN session : session[c].admin

DistinctOrders(tbl) ==
    \A i, j \in ActiveIds(tbl) :
       i # j => tbl[i].display_order # tbl[j].display_order

\* C36: after any sequence of create, update and delete calls on services
\* and on FAQs, an update of a soft-deleted row included, no two active
\* rows of a table have the same display_order.
C36_NoSharedDisplayOrder == DistinctOrders(services) /\ DistinctOrders(faqs)

(***************************************************************************)
(* The two background loops and their shutdown.                            *)
(***************************************************************************)
\* app.session_tracker.shutdown() and app.api_cache_refresher.shutdown(),
\* which main calls one after the other without an await in between, once
\* both tasks were started
ShutdownLoops ==
    /\ booted
    /\ refresher.pc # "none"
    /\ ~trackerStop
    /\ trackerStop' = TRUE
    /\ refresherStop' = TRUE
    /\ UNCHANGED <<booted, now, session, issued, trackerPc, trackerQueue,
                   sweep, eventVars, cacheVars, contentVars, backups, mails,
                   sections, main, hcp, adminVars, annVars, requests,
                   extraVars, ret, prev>>

TrackerStep ==
    \/ TrackerGetSessions
    \/ TrackerVerify
    \/ TrackerSleep
    \/ TrackerWake

RefresherStep ==
    \/ RefresherStart
    \/ RefreshRating
    \/ RefreshReviews
    \/ RefreshHcpServices
    \/ RefresherWhile

NextLoops ==
    \/ InitApp
    \/ CreateAdminSession
    \/ TrackerGetSessions
    \/ TrackerVerify
    \/ TrackerSleep
    \/ TrackerWake
    \/ TrackerRaises
    \/ RefresherStart
    \/ RefreshRating
    \/ RefreshReviews
    \/ RefreshHcpServices
    \/ RefresherWhile
    \/ ShutdownLoops

\* the event loop keeps running both tasks: an await of a task that can
\* return does return
SpecLoops ==
    Init /\ [][NextLoops]_vars /\ WF_vars(TrackerStep) /\ WF_vars(RefresherStep)

TrackerEnded == trackerPc \in {"stopped", "raised"}

restVerify ==
    <<booted, now, issued, trackerPc, trackerQueue, trackerStop, sweep,
      eventVars, cacheVars, contentVars, backups, mails, sections, bootVars,
      adminVars, annVars, requests, ping, refresher, uploadVars, blogVars,
      loading, prev>>

\* verify_session(cookie) up to its SELECT: without a row it returns; with
\* one it goes on to update_session with the timestamp, or with admin =
\* False when the row is older than the timeout.  ret.arg = <<cookie, the
\* statement the call ended with>>
VerifySelect ==
    /\ booted
    /\ verifying.pc = "none"
    /\ \E cookie \in Cookies :
          IF cookie \notin DOMAIN session
          THEN /\ Returns("verify_session", <<cookie, "select">>, FALSE)
               /\ UNCHANGED verifying
          ELSE /\ verifying' =
                     [pc |-> "get_sessions", cookie |-> cookie,
                      updateargs |->
                          IF ~Expired(session[cookie].timestamp, now)
                          THEN [timestamp |-> now]
                          ELSE [admin |-> FALSE],
                      value |-> (session[cookie].admin = TRUE)]
               /\ UNCHANGED ret
    /\ UNCHANGED <<session, restVerify>>

\* update_session: 'if cookie in {...get_sessions()}'
VerifyGetSessions ==
    /\ verifying.pc = "get_sessions"
    /\ IF verifying.cookie \in DOMAIN session
       THEN /\ verifying' = [verifying EXCEPT !.pc = "update"]
            /\ UNCHANGED ret
       ELSE /\ verifying' = NoVerify
            /\ Returns("verify_session", <<verifying.cookie, "get_sessions">>,
                       verifying.value)
    /\ UNCHANGED <<session, restVerify>>

\* update_session: UPDATE session SET ... WHERE cookie = %s
VerifyUpdate ==
    /\ verifying.pc = "update"
    /\ session' = update_session(session, verifying.cookie,
                                 verifying.updateargs)
    /\ verifying' = NoVerify
    /\ Returns("verify_session", <<verifying.cookie, "update">>,
               verifying.value)
    /\ UNCHANGED restVerify

NextVerify ==
    \/ InitApp
    \/ CreateAdminSession
    \/ Tick
    \/ TrackerGetSessions
    \/ TrackerVerify
    \/ TrackerSleep
    \/ TrackerWake
    \/ VerifySelect
    \/ VerifyGetSessions
    \/ VerifyUpdate

SpecVerify == Init /\ [][NextVerify]_vars

\* C38: update_session creates no row: whatever the tracker deletes between
\* the SELECT of a route's verify_session and its update, the update writes
\* only to a row that is there, and a cookie whose row was deleted never has
\* a row again; the table holds one row for a cookie at most.
C38_DeletedRowStaysDeleted ==
    [][/\ verifying.pc \in {"get_sessions", "update"} /\ verifying'.pc = "none"
          => DOMAIN session' = DOMAIN session
       /\ \A cookie \in issued :
             cookie \notin DOMAIN session => cookie \notin DOMAIN session']_vars

C38_Witness ==
    /\ ret.op = "verify_session"
    /\ ret.arg[2] = "update"
    /\ ret.arg[1] \in issued
    /\ ret.arg[1] \notin DOMAIN session

(***************************************************************************)
(* verify_session with every value of its two flags.                       *)
(***************************************************************************)
\* verify_session(cookie, update_ts, delete_if_expired); ret.arg = <<cookie,
\* "flags", update_ts, delete_if_expired>>
VerifySessionFlags ==
    /\ booted
    /\ \E cookie \in CookieArgs, update_ts \in BOOLEAN,
          delete_if_expired \in BOOLEAN :
          LET r == verify_session(session, cookie, update_ts,
                                  delete_if_expired, now)
          IN  /\ session' = r.session
              /\ Returns("verify_session",
                         <<cookie, "flags", update_ts, delete_if_expired>>,
                         r.value)
    /\ UNCHANGED <<issued, trackerPc, trackerQueue, trackerStop, sweep,
                   restSession>>

NextExpiry ==
    \/ InitApp
    \/ CreateSessionCall
    \/ Tick
    \/ VerifySessionFlags

SpecExpiry == Init /\ [][NextExpiry]_vars

\* C39: verify_session leaves the timestamp of a session older than
\* SESSION_TIMEOUT minutes as it is, whatever update_ts says; it sets the
\* timestamp to the present exactly when the session is within the timeout
\* and update_ts is true.
C39_ExpiredTimestampKept ==
    [][(Called("verify_session") /\ ret'.arg[2] = "flags"
        /\ ret'.arg[1] \in DOMAIN session) =>
          LET cookie == ret'.arg[1]
              old == session[cookie].timestamp
              within == old > now - SESSION_TIMEOUT
          IN  /\ (~within /\ cookie \in DOMAIN session') =>
                    session'[cookie].timestamp = old
              /\ (within /\ ret'.arg[3]) =>
                    /\ cookie \in DOMAIN session'
                    /\ session'[cookie].timestamp = now
              /\ (within /\ ~ret'.arg[3]) =>
                    /\ cookie \in DOMAIN session'
                    /\ session'[cookie].timestamp = old]_vars

C39_Witness ==
    /\ ret.op = "verify_session"
    /\ ret.arg[2] = "flags"
    /\ ret.arg[3]
    /\ ~ret.arg[4]
    /\ ret.arg[1] \in DOMAIN session
    /\ session[ret.arg[1]].timestamp <= now - SESSION_TIMEOUT
    /\ \E c \in DOMAIN session : session[c].timestamp = now /\ now > 0

(***************************************************************************)
(* get_event of two page loads, one action per await.                      *)
(***************************************************************************)
restLoads ==
    <<booted, now, sessVars, nextEventId, cacheVars, contentVars, backups,
      mails, sections, bootVars, adminVars, annVars, requests, ping,
      refresher, uploadVars, blogVars, verifying>>

\* get_event(cookie) up to fetchone(): without a row it returns (None, None)
GetEventSelect ==
    /\ booted
    /\ \E i \in Loads, cookie \in Cookies :
          /\ loading[i].pc = "none"
          /\ IF get_event_query(events, cookie) = {}
             THEN /\ loading' = [loading EXCEPT ![i].pc = "done",
                                                ![i].cookie = cookie]
                  /\ Returns("get_event", <<cookie>>, NoEvent)
                  /\ prev' = ret
             ELSE \E event_query \in get_event_query(events, cookie) :
                     /\ loading' = [loading EXCEPT ![i].pc = "delete",
                                                   ![i].cookie = cookie,
                                                   ![i].id = event_query.id,
                                                   ![i].event =
                                                       <<event_query.event,
                                                         event_query.type>>]
                     /\ UNCHANGED <<ret, prev>>
    /\ UNCHANGED <<events, restLoads>>

\* DELETE FROM events WHERE id = %s, and the return of the event that the
\* SELECT gave
GetEventDelete ==
    /\ \E i \in Loads :
          /\ loading[i].pc = "delete"
          /\ events' = get_event_delete(events, loading[i])
          /\ loading' = [loading EXCEPT ![i].pc = "done",
                                        ![i].got = loading[i].id]
          /\ Returns("get_event", <<loading[i].cookie>>, loading[i].event)
          /\ prev' = ret
    /\ UNCHANGED restLoads

NextLoads ==
    \/ InitApp
    \/ CreateFlashEvent
    \/ GetEventSelect
    \/ GetEventDelete

SpecLoads == Init /\ [][NextLoads]_vars

\* C40: of two page loads with the same cookie that run get_event side by
\* side, one at most is handed a given pending flash event.
C40_FlashReturnedOnce ==
    \A i, j \in Loads :
       (i # j /\ loading[i].got # 0) => loading[j].got # loading[i].got
====
